---- MODULE Spec2Model ----
(***************************************************************************)
(* A model of armedev/game-of-life: the binary wire codec (protocol.rs),   *)
(* the thread-parallel Game of Life engine (patterns/gol_threads.rs) and   *)
(* the per-connection task pairs around the tokio broadcast channel        *)
(* (socket.rs, message.rs).                                                *)
(*                                                                         *)
(* Rust vectors are modelled as TLA+ sequences, so index i of the source   *)
(* is index i + 1 here.  Bytes are naturals in 0..255.                     *)
(***************************************************************************)
EXTENDS Naturals, Integers, Sequences, FiniteSets, TLC

VARIABLES
    \* ---- protocol.rs: the codec under test
    op,         \* the codec operation applied last
    msg,        \* the WsMessage handed to encode_ws_message
    data,       \* the byte buffer handed to decode_ws_message
    decoded,    \* what decode_ws_message returned for data
    response,   \* payload.rs: what handle_payload returned for the decoded command
    \* ---- patterns/gol_threads.rs: the engine
    game,       \* the GameOfLifeVecs object
    before,     \* the object as it was when the last operation was called
    gop,        \* the last operation on it, with its inputs
    \* ---- patterns/gol.rs: the engine behind its lock
    lock,       \* GAME_STATE's RwLock: "ok" or "poisoned"
    reply,      \* what the last command on GAME_STATE returned
    served,     \* how many commands GAME_STATE has served
    \* ---- socket.rs, message.rs: the connections and the hub
    build,      \* which connection handler the server runs: socket.rs, message.rs
                \* or the one of main.rs
    chan,       \* every message the broadcast channel accepted, in send order
    messages,   \* AppState.messages, the replay buffer
    frames,     \* how many frames the clients have sent
    budget,     \* how many frames the clients send in this run at most
    driver,     \* main.rs: the thread that publishes a frame every 100 ms
    handler,    \* per connection: where handle_socket / SocketHandler::run is
    replay,     \* per connection: the clone of AppState.messages it replays
    mark,       \* per connection: Len(chan) when it read the replay, when it subscribed
    outbound,   \* per connection: the channel-to-socket task and its Receiver
    inbound,    \* per connection: the socket-to-channel task
    wire,       \* per connection: what has been written to its socket
    sink,       \* per connection: whether writes to its socket still succeed
    lastFrame,  \* the frame an inbound task read last: its connection and kind
    \* ---- patterns/gol_simd.rs, patterns/gol_archive.rs: the other engines
    bits,       \* the GameOfLifeBits object
    bitsBefore, \* that object as it was when the last operation was called
    life,       \* the GameOfLife object of gol_archive.rs
    \* ---- patterns/gol.rs called from the inbound tasks of message.rs
    calls       \* per connection: the command its inbound task is executing

codecVars == <<op, msg, data, decoded, response>>
golVars == <<game, before, gop, lock, reply, served>>
hubVars == <<build, chan, messages, frames, budget, driver, handler, replay, mark,
             outbound, inbound, wire, sink, lastFrame>>

vars == <<op, msg, data, decoded, response, game, before, gop, lock, reply, served,
          build, chan, messages, frames, budget, driver, handler, replay, mark,
          outbound, inbound, wire, sink, lastFrame, bits, bitsBefore, life, calls>>

engineVars == <<bits, bitsBefore, life, calls>>

\* What an operation of one part of the program leaves alone.
notCodec == <<golVars, hubVars, engineVars>>
notGol == <<codecVars, hubVars, engineVars>>
notHub == <<codecVars, golVars, engineVars>>

(***************************************************************************)
(* protocol.rs                                                             *)
(***************************************************************************)
PROTOCOL_VERSION == 1
HEADER_LENGTH == 7

\* Largest payload the codec is exercised with.
MaxPayload == 2

\* 2^16.  A u32 or usize value is held as two 16-bit halves [hi, lo], since the
\* model's integers are 32-bit signed: from_be_bytes of a length field whose
\* first byte is 128 or more does not fit one.
HalfWord == 65536

Min(a, b) == IF a < b THEN a ELSE b

\* (n as u32).to_be_bytes(), for n below 2^31
to_be_bytes(n) ==
    << (n \div 16777216) % 256, (n \div 65536) % 256, (n \div 256) % 256, n % 256 >>

\* u32::from_be_bytes
from_be_bytes(b) ==
    [hi |-> b[1] * 256 + b[2], lo |-> b[3] * 256 + b[4]]

\* a usize below 2^31 in the two-halves form
Wide(n) == [hi |-> n \div HalfWord, lo |-> n % HalfWord]

\* w + n in usize (64 bits: no wrap for a u32 w and a small n)
WideAdd(w, n) ==
    [hi |-> w.hi + ((w.lo + n) \div HalfWord), lo |-> (w.lo + n) % HalfWord]

WsMessage(version, msg_type, flags, payload) ==
    [version |-> version, msg_type |-> msg_type, flags |-> flags, payload |-> payload]

NoMessage == WsMessage(0, 0, 0, <<>>)

Ok(m) == [err |-> "none", msg |-> m]
Bail(e) == [err |-> e, msg |-> NoMessage]

\* A decode that validates the version byte as soon as there is one.
decode_ws_message_version_first(buf) ==
    LET data_len == Len(buf) IN
    IF data_len >= 1 /\ buf[1] # PROTOCOL_VERSION
    THEN Bail("Unsupported protocol version")
    ELSE IF data_len < HEADER_LENGTH
    THEN Bail("Message too short")
    ELSE LET payload_length == from_be_bytes(SubSeq(buf, 4, 7))
             expected_total_length == WideAdd(payload_length, HEADER_LENGTH)
         IN  IF Wide(data_len) # expected_total_length
             THEN Bail("Message length mismatch")
             ELSE Ok(WsMessage(buf[1], buf[2], buf[3],
                               SubSeq(buf, HEADER_LENGTH + 1, data_len)))

\* A decode that compares the lengths before it looks at the version.
decode_ws_message_length_first(buf) ==
    LET data_len == Len(buf) IN
    IF data_len < HEADER_LENGTH
    THEN Bail("Message too short")
    ELSE LET payload_length == from_be_bytes(SubSeq(buf, 4, 7))
             expected_total_length == WideAdd(payload_length, HEADER_LENGTH)
         IN  IF Wide(data_len) # expected_total_length
             THEN Bail("Message length mismatch")
             ELSE IF buf[1] # PROTOCOL_VERSION
             THEN Bail("Unsupported protocol version")
             ELSE Ok(WsMessage(buf[1], buf[2], buf[3],
                               SubSeq(buf, HEADER_LENGTH + 1, data_len)))

\* A decode that only rejects buffers shorter than declared, and cuts a longer
\* one down to the declared payload.
decode_ws_message_truncating(buf) ==
    LET data_len == Len(buf) IN
    IF data_len < HEADER_LENGTH
    THEN Bail("Message too short")
    ELSE IF buf[1] # PROTOCOL_VERSION
    THEN Bail("Unsupported protocol version")
    ELSE LET payload_length == from_be_bytes(SubSeq(buf, 4, 7))
             expected_total_length == WideAdd(payload_length, HEADER_LENGTH)
         IN  IF \/ Wide(data_len).hi < expected_total_length.hi
                \/ /\ Wide(data_len).hi = expected_total_length.hi
                   /\ Wide(data_len).lo < expected_total_length.lo
             THEN Bail("Message length mismatch")
             ELSE Ok(WsMessage(buf[1], buf[2], buf[3],
                               SubSeq(buf, HEADER_LENGTH + 1, expected_total_length.lo)))

decode_ws_message(buf) ==
    LET data_len == Len(buf) IN
    IF data_len < HEADER_LENGTH
    THEN Bail("Message too short")
    ELSE IF buf[1] # PROTOCOL_VERSION
    THEN Bail("Unsupported protocol version")
    ELSE LET payload_length == from_be_bytes(SubSeq(buf, 4, 7))
             expected_total_length == WideAdd(payload_length, HEADER_LENGTH)
         IN  IF Wide(data_len) # expected_total_length
             THEN Bail("Message length mismatch")
             ELSE Ok(WsMessage(buf[1], buf[2], buf[3],
                               SubSeq(buf, HEADER_LENGTH + 1, data_len)))

\* An encode that writes the payload length least significant byte first.
\* An encoder that writes the length of the whole frame into the length field.
encode_ws_message_frame_length(m) ==
    << m.version, m.msg_type, m.flags >>
        \o to_be_bytes(HEADER_LENGTH + Len(m.payload)) \o m.payload

encode_ws_message_little_endian(m) ==
    LET be == to_be_bytes(Len(m.payload)) IN
    << m.version, m.msg_type, m.flags >> \o << be[4], be[3], be[2], be[1] >> \o m.payload

encode_ws_message(m) ==
    << m.version, m.msg_type, m.flags >> \o to_be_bytes(Len(m.payload)) \o m.payload

\* ---- the inputs the codec is exercised with
VersionSample == {0, 1, 2, 255}
TypeSample == {0, 42, 255}
FlagSample == {0, 1, 255}
ByteSample == {0, 1, 255}

SeqsUpTo(S, n) == UNION {[1..k -> S] : k \in 0..n}

Payloads == SeqsUpTo(ByteSample, MaxPayload)

Messages ==
    {WsMessage(v, t, f, p) : v \in VersionSample, t \in TypeSample,
                             f \in FlagSample, p \in Payloads}

\* Length fields: every small length, one more than the largest payload, and
\* lengths whose significant byte is not the last one.
LengthFields ==
    {to_be_bytes(n) : n \in 0..(MaxPayload + 1)}
        \cup {<<0, 0, 1, 0>>, <<1, 0, 0, 0>>, <<255, 255, 255, 255>>}

\* Frames with any header, any length field and any payload, cut at any length.
Buffers ==
    {SubSeq(<<v, t, 0>> \o l \o p, 1, Min(k, HEADER_LENGTH + Len(p))) :
        v \in VersionSample, t \in {0, 42}, l \in LengthFields,
        p \in Payloads, k \in 0..(HEADER_LENGTH + MaxPayload)}

\* The codec at rest: no operation applied yet.
CodecIdle ==
    /\ op = "init"
    /\ msg = NoMessage
    /\ data = <<>>
    /\ decoded = Bail("not run")
    /\ response = <<>>

\* One input per run: a message to encode and decode back, or a buffer to decode.
CodecInit ==
    /\ op = "init"
    /\ decoded = Bail("not run")
    /\ response = <<>>
    /\ \/ msg \in Messages /\ data = <<>>
       \/ msg = NoMessage /\ data \in Buffers

\* tests::encode_decode_roundtrip: decode what encode produced for msg.
EncodeDecode ==
    /\ op = "init"
    /\ data = <<>>
    /\ op' = "roundtrip"
    /\ data' = encode_ws_message(msg)
    /\ decoded' = decode_ws_message(encode_ws_message(msg))
    /\ UNCHANGED <<msg, response, notCodec>>

\* decode_ws_message on a buffer as it comes from a socket.
Decode ==
    /\ op = "init"
    /\ msg = NoMessage
    /\ op' = "decode"
    /\ decoded' = decode_ws_message(data)
    /\ UNCHANGED <<msg, data, response, notCodec>>

CodecNext ==
    \/ EncodeDecode
    \/ Decode

(***************************************************************************)
(* payload.rs                                                              *)
(***************************************************************************)
PAYLOAD_CANVAS_WIDTH == 40
PAYLOAD_CANVAS_HEIGHT == 40
SEND_PIXEL == 42
DRAW_PIXEL == 100

\* A conversion that puts the low byte first.
u16_to_le_bytes(n) == << n % 256, (n \div 256) % 256 >>

\* u16::to_be_bytes
u16_to_be_bytes(n) == << (n \div 256) % 256, n % 256 >>

\* rng.random_range(lo..hi)
random_range(lo, hi) == lo..(hi - 1)

\* The pixels create_random_pixel_message is tried with: the corners of the
\* canvas, in two colours.
PixelSample ==
    {[x |-> x, y |-> y, r |-> c, g |-> c, b |-> 255 - c] :
        x \in {0, PAYLOAD_CANVAS_WIDTH - 1} \cap random_range(0, PAYLOAD_CANVAS_WIDTH),
        y \in {0, PAYLOAD_CANVAS_HEIGHT - 1} \cap random_range(0, PAYLOAD_CANVAS_HEIGHT),
        c \in {0, 255}}

\* payload.rs create_pixel_message, for coordinates on the canvas.
payload_create_pixel_message(x, y, r, g, b) ==
    encode_ws_message(WsMessage(PROTOCOL_VERSION, DRAW_PIXEL, 0,
                                u16_to_be_bytes(x) \o u16_to_be_bytes(y) \o <<r, g, b>>))

\* An echo that keeps the flags of the command.
create_echo_response_keeping_flags(parsed) ==
    encode_ws_message(WsMessage(PROTOCOL_VERSION, parsed.msg_type, parsed.flags,
                                parsed.payload))

\* WsPayload::create_echo_response
create_echo_response(parsed) ==
    encode_ws_message(WsMessage(PROTOCOL_VERSION, parsed.msg_type, 0, parsed.payload))

\* WsPayload::handle_payload as the bytes it returns; pixel is what
\* create_random_pixel_message draws.
WsPayload_handle_payload(parsed, pixel) ==
    IF parsed.msg_type = SEND_PIXEL
    THEN payload_create_pixel_message(pixel.x, pixel.y, pixel.r, pixel.g, pixel.b)
    ELSE create_echo_response(parsed)

\* A client's frame that encodes msg is decoded and, when that succeeds, handed
\* to handle_payload (handle_send_to_channel, ChannelSender::handle_binary_message).
HandlePayload(pixel) ==
    /\ op = "init"
    /\ data = <<>>
    /\ op' = "handle_payload"
    /\ data' = encode_ws_message(msg)
    /\ decoded' = decode_ws_message(encode_ws_message(msg))
    /\ response' = IF decoded'.err = "none"
                  THEN WsPayload_handle_payload(decoded'.msg, pixel)
                  ELSE <<>>
    /\ UNCHANGED <<msg, notCodec>>

PayloadNext ==
    \E pixel \in PixelSample : HandlePayload(pixel)

(***************************************************************************)
(* patterns/gol_threads.rs                                                 *)
(***************************************************************************)
\* Grid dimensions (CANVAS_WIDTH x CANVAS_HEIGHT in the program).
Width == 3
Height == 3
\* Largest value of thread::available_parallelism() tried.
MaxParallelism == 4
Rows(w, h, v) == [y \in 1..h |-> [x \in 1..w |-> v]]

Grids(w, h) == [1..h -> [1..w -> BOOLEAN]]

\* usize::saturating_sub
saturating_sub(a, b) == IF a < b THEN 0 ELSE a - b

\* A rule under which a live cell with one live neighbour survives as well.
next_alive_lonely_survives(neighbors, current_alive) ==
    CASE neighbors \in {1, 2} -> current_alive
      [] neighbors = 3 -> TRUE
      [] OTHER -> FALSE

\* The match on the neighbour count shared by step and step_fallback.
next_alive(neighbors, current_alive) ==
    CASE neighbors = 2 -> current_alive
      [] neighbors = 3 -> TRUE
      [] OTHER -> FALSE

\* GameOfLifeVecs::count_live_neighbors; x and y are 0-based as in the source.
count_live_neighbors(g, x, y) ==
    LET start_y == saturating_sub(y, 1)
        end_y == Min(y + 1, g.height - 1)
        start_x == saturating_sub(x, 1)
        end_x == Min(x + 1, g.width - 1)
    IN  Cardinality({c \in (start_x..end_x) \X (start_y..end_y) :
                        /\ ~(c[1] = x /\ c[2] = y)
                        /\ g.current_generation[c[2] + 1][c[1] + 1]})

\* GameOfLifeVecs::step_fallback: fill next_generation in place, then swap.
step_fallback(g) ==
    LET next == [y \in 1..g.height |->
                    [x \in 1..g.width |->
                        next_alive(count_live_neighbors(g, x - 1, y - 1),
                                   g.current_generation[y][x])]]
        filled == [y \in 1..Len(g.next_generation) |->
                    IF y <= g.height THEN next[y] ELSE g.next_generation[y]]
    IN  [g EXCEPT !.current_generation = filled,
                  !.next_generation = g.current_generation,
                  !.generation_count = g.generation_count + 1]

\* A neighbour count on a torus: the columns and rows wrap around.
count_neighbors_parallel_wrapping(current_gen, x, y, width, height) ==
    Cardinality({d \in {-1, 0, 1} \X {-1, 0, 1} :
                    /\ d # <<0, 0>>
                    /\ current_gen[((y + d[2] + height) % height) + 1]
                                  [((x + d[1] + width) % width) + 1]})

\* count_neighbors_parallel
count_neighbors_parallel(current_gen, x, y, width, height) ==
    LET start_y == saturating_sub(y, 1)
        end_y == Min(y + 1, height - 1)
        start_x == saturating_sub(x, 1)
        end_x == Min(x + 1, width - 1)
    IN  Cardinality({c \in (start_x..end_x) \X (start_y..end_y) :
                        /\ ~(c[1] = x /\ c[2] = y)
                        /\ current_gen[c[2] + 1][c[1] + 1]})

\* num_threads: the available parallelism, but no more threads than rows.
num_threads(parallelism, height) == Min(parallelism, height)

\* A chunk size rounded down: the last rows are given to no thread.
chunk_size_rounded_down(height, threads) == height \div threads

chunk_size(height, threads) == (height + threads - 1) \div threads

\* A thread that also computes the row after its last one.
worker_one_row_more(current_gen, thread_id, chunk, width, height) ==
    LET start_row == thread_id * chunk
        end_row == Min((thread_id + 1) * chunk + 1, height)
        count == IF end_row > start_row THEN end_row - start_row ELSE 0
    IN  [start_row |-> start_row,
         rows |-> [i \in 1..count |->
                    [x \in 1..width |->
                        next_alive(
                            count_neighbors_parallel(current_gen, x - 1,
                                                     start_row + i - 1, width, height),
                            current_gen[start_row + i][x])]]]

\* What the thread with this id returns: (start_row, local_next_gen).
worker(current_gen, thread_id, chunk, width, height) ==
    LET start_row == thread_id * chunk
        end_row == Min((thread_id + 1) * chunk, height)
        count == IF end_row > start_row THEN end_row - start_row ELSE 0
    IN  [start_row |-> start_row,
         rows |-> [i \in 1..count |->
                    [x \in 1..width |->
                        next_alive(
                            count_neighbors_parallel(current_gen, x - 1,
                                                     start_row + i - 1, width, height),
                            current_gen[start_row + i][x])]]]

\* results.sort_by_key(|&(start_row, _)| start_row): a stable sort.
RECURSIVE sort_by_start_row(_)
sort_by_start_row(results) ==
    IF results = <<>> THEN <<>>
    ELSE LET least == CHOOSE i \in 1..Len(results) :
                        \A j \in 1..Len(results) :
                            \/ results[i].start_row < results[j].start_row
                            \/ results[i].start_row = results[j].start_row /\ i <= j
             rest == [k \in 1..(Len(results) - 1) |->
                        IF k < least THEN results[k] ELSE results[k + 1]]
         IN  <<results[least]>> \o sort_by_start_row(rest)

\* next_generation.clear(), then append the rows of each result in turn.
RECURSIVE append_rows(_)
append_rows(results) ==
    IF results = <<>> THEN <<>>
    ELSE results[1].rows \o append_rows(Tail(results))

\* The results of the threads whose join() returned Ok, in spawn order.
RECURSIVE joined(_, _, _, _, _, _)
joined(current_gen, threads, thread_id, chunk, g, failed) ==
    IF thread_id >= threads THEN <<>>
    ELSE (IF thread_id \in failed THEN <<>>
          ELSE <<worker(current_gen, thread_id, chunk, g.width, g.height)>>)
         \o joined(current_gen, threads, thread_id + 1, chunk, g, failed)

\* A step that sets generation_count to 1 instead of adding 1 to it.
step_resetting_count(g, parallelism, failed) ==
    LET current_gen == g.current_generation
        threads == num_threads(parallelism, g.height)
        chunk == chunk_size(g.height, threads)
        results == sort_by_start_row(joined(current_gen, threads, 0, chunk, g, failed))
    IN  [g EXCEPT !.current_generation = append_rows(results),
                  !.next_generation = g.current_generation,
                  !.generation_count = 1]

\* GameOfLifeVecs::step with the given available parallelism; failed is the set
\* of thread ids whose join() returned Err.
step(g, parallelism, failed) ==
    LET current_gen == g.current_generation
        threads == num_threads(parallelism, g.height)
        chunk == chunk_size(g.height, threads)
        results == sort_by_start_row(joined(current_gen, threads, 0, chunk, g, failed))
    IN  [g EXCEPT !.current_generation = append_rows(results),
                  !.next_generation = g.current_generation,
                  !.generation_count = g.generation_count + 1]

\* GameOfLifeVecs::new before initialize_random: every cell dead.
NewGame(w, h) ==
    [width |-> w, height |-> h,
     current_generation |-> Rows(w, h, FALSE),
     next_generation |-> Rows(w, h, FALSE),
     generation_count |-> 0]

NoOp == [name |-> "new", parallelism |-> 0]

\* No command has returned yet.
NoReply == [kind |-> "none"]

GolIdle ==
    /\ game = NewGame(Width, Height)
    /\ before = NewGame(Width, Height)
    /\ gop = NoOp
    /\ lock = "ok"
    /\ reply = NoReply
    /\ served = 0

\* GameOfLifeVecs::new: initialize_random leaves any pattern of cells.
GolInit ==
    /\ game \in {[NewGame(Width, Height) EXCEPT !.current_generation = c] :
                    c \in Grids(Width, Height)}
    /\ before = game
    /\ gop = NoOp
    /\ lock = "ok"
    /\ reply = NoReply
    /\ served = 0

\* step() on a machine with the given available parallelism; every worker
\* thread returns.  One operation per run, from any grid.
Step(parallelism) ==
    /\ gop.name = "new"
    /\ before' = game
    /\ gop' = [name |-> "step", parallelism |-> parallelism]
    /\ game' = step(game, parallelism, {})
    /\ UNCHANGED <<lock, reply, served, notGol>>

StepFallback ==
    /\ gop.name = "new"
    /\ before' = game
    /\ gop' = [name |-> "step_fallback", parallelism |-> 0]
    /\ game' = step_fallback(game)
    /\ UNCHANGED <<lock, reply, served, notGol>>

GolNext ==
    \/ \E parallelism \in 1..MaxParallelism : Step(parallelism)
    \/ StepFallback

\* ---- a worker thread that panics
\* The ids of the worker threads step() spawns.
ThreadIds(parallelism, height) == 0..(num_threads(parallelism, height) - 1)

\* step() in which join() returns Err for the worker threads in failed.
StepWorkerFails(parallelism, failed) ==
    /\ gop.name = "new"
    /\ failed # {}
    /\ before' = game
    /\ gop' = [name |-> "step, worker failed", parallelism |-> parallelism]
    /\ game' = step(game, parallelism, failed)
    /\ UNCHANGED <<lock, reply, served, notGol>>

GolFaultNext ==
    \/ \E parallelism \in 1..MaxParallelism : Step(parallelism)
    \/ StepFallback
    \/ \E parallelism \in 1..MaxParallelism :
            \E failed \in SUBSET ThreadIds(parallelism, Height) :
                StepWorkerFails(parallelism, failed)

\* ---- the other operations of GameOfLifeVecs
\* An initialize_random that leaves generation_count alone.
initialize_random_keeping_count(g, pattern) ==
    [g EXCEPT !.current_generation = pattern]

\* GameOfLifeVecs::initialize_random; pattern is what the random draws leave.
initialize_random(g, pattern) ==
    [g EXCEPT !.current_generation = pattern, !.generation_count = 0]

\* GameOfLifeVecs::initialize_blinker
initialize_blinker(g) ==
    LET cleared == Rows(g.width, g.height, FALSE)
        center_x == g.width \div 2
        center_y == g.height \div 2
    IN  [g EXCEPT !.current_generation =
                    IF center_x > 0 /\ center_y > 0 /\ center_x < g.width - 1
                    THEN [cleared EXCEPT ![center_y + 1] =
                            [x \in 1..g.width |->
                                (x - 1) \in {center_x - 1, center_x, center_x + 1}]]
                    ELSE cleared,
                  !.generation_count = 0]

\* Whether current_generation[y][x] is an element: indexing past the end of a
\* Vec panics.
Indexable(g, x, y) ==
    /\ y < Len(g.current_generation)
    /\ x < Len(g.current_generation[y + 1])

\* GameOfLifeVecs::awaken_cell_in, for an indexable cell; x and y are 0-based.
awaken_cell_in(g, x, y) ==
    [g EXCEPT !.current_generation[y + 1][x + 1] = TRUE]

\* GameOfLifeVecs::awaken_random_cell with the coordinates it drew.
awaken_random_cell(g, x, y) ==
    [g EXCEPT !.current_generation[y + 1][x + 1] = TRUE]

\* A kill_random_cell that also clears the cell to the right of the one drawn.
kill_random_cell_and_neighbour(g, x, y) ==
    [g EXCEPT !.current_generation[y + 1] =
        [i \in 1..g.width |->
            IF i \in {x + 1, x + 2} THEN FALSE ELSE g.current_generation[y + 1][i]]]

\* GameOfLifeVecs::kill_random_cell with the coordinates it drew.
kill_random_cell(g, x, y) ==
    [g EXCEPT !.current_generation[y + 1][x + 1] = FALSE]

\* GameOfLifeVecs::initialize_glider
initialize_glider(g) ==
    LET glider == {<<1, 0>>, <<2, 1>>, <<0, 2>>, <<1, 2>>, <<2, 2>>}
    IN  [g EXCEPT !.current_generation =
                    [y \in 1..g.height |->
                        [x \in 1..g.width |->
                            \E c \in glider :
                                /\ c[1] < g.width /\ c[2] < g.height
                                /\ c = <<x - 1, y - 1>>]],
                  !.generation_count = 0]

\* A kill_all_cells that leaves generation_count alone.
kill_all_cells_keeping_count(g) ==
    [g EXCEPT !.next_generation = g.current_generation,
              !.current_generation = Rows(g.width, g.height, FALSE)]

\* A kill_all_cells that empties the Vec of rows instead of swapping in a
\* fresh grid.
kill_all_cells_clearing(g) ==
    [g EXCEPT !.next_generation = g.current_generation,
              !.current_generation = <<>>,
              !.generation_count = 0]

\* GameOfLifeVecs::kill_all_cells: a fresh dead grid, swapped in.
kill_all_cells(g) ==
    [g EXCEPT !.next_generation = g.current_generation,
              !.current_generation = Rows(g.width, g.height, FALSE),
              !.generation_count = 0]

\* constants.rs
DEAD_CELL_R_G_B == <<255, 255, 255>>
DRAW_FRAME == 101
CANVAS_WIDTH == Width
CANVAS_HEIGHT == Height

\* A create_random_rgb whose range includes its end, 255.
RgbSample_inclusive == {<<c, c, c>> : c \in {0, 254, 255} \cap random_range(0, 256)}

\* utils.rs create_random_rgb draws each of r, g, b from 0..255, the end not
\* included; the colours tried are the lowest, the highest and the dead
\* colour's byte, where the range has them.
RgbSample == {<<c, c, c>> : c \in {0, 254, 255} \cap random_range(0, 255)}

\* The colours to_rgb_data draws for the live cells, by cell <<x, y>>.
Paints ==
    {[c \in (0..(Width - 1)) \X (0..(Height - 1)) |-> rgb] : rgb \in RgbSample}

RECURSIVE rgb_row(_, _, _, _)
\* One row of to_rgb_data's loop, from column x on.
rgb_row(g, paint, y, x) ==
    IF x >= g.width THEN <<>>
    ELSE (IF g.current_generation[y + 1][x + 1]
          THEN paint[<<x, y>>]
          ELSE DEAD_CELL_R_G_B) \o rgb_row(g, paint, y, x + 1)

RECURSIVE rgb_rows(_, _, _)
rgb_rows(g, paint, y) ==
    IF y >= g.height THEN <<>>
    ELSE rgb_row(g, paint, y, 0) \o rgb_rows(g, paint, y + 1)

\* A to_rgb_data that writes the rows from the last to the first.
to_rgb_data_bottom_up(g, paint) ==
    rgb_rows([g EXCEPT !.current_generation =
                [y \in 1..g.height |-> g.current_generation[g.height + 1 - y]]],
             paint, 0)

\* GameOfLifeVecs::to_rgb_data
to_rgb_data(g, paint) == rgb_rows(g, paint, 0)

\* What a command returns when it panics.
Panic == [kind |-> "panic"]

\* utils.rs create_pixel_message
create_pixel_message(x, y, r, g, b) ==
    IF x >= CANVAS_WIDTH \/ y >= CANVAS_HEIGHT
    THEN Panic
    ELSE [kind |-> "pixel", at |-> <<x, y>>,
          bytes |-> encode_ws_message(
                        WsMessage(PROTOCOL_VERSION, DRAW_PIXEL, 0,
                                  u16_to_be_bytes(x) \o u16_to_be_bytes(y) \o <<r, g, b>>))]

\* utils.rs create_frame_message
create_frame_message(frame_data) ==
    IF Len(frame_data) # CANVAS_WIDTH * CANVAS_HEIGHT * 3
    THEN Panic
    ELSE [kind |-> "frame",
          bytes |-> encode_ws_message(
                        WsMessage(PROTOCOL_VERSION, DRAW_FRAME, 0,
                                  u16_to_be_bytes(CANVAS_WIDTH)
                                      \o u16_to_be_bytes(CANVAS_HEIGHT) \o frame_data))]

\* ---- several generations in a row
\* How many generations a run advances, how many cells live at its start, and
\* how many commands a run gives GAME_STATE.
MaxGen == 3
MaxLive == 3
MaxCommands == 2

LiveCells(c) ==
    Cardinality({p \in (1..Height) \X (1..Width) : c[p[1]][p[2]]})

\* GameOfLifeVecs::new and a pattern of a few live cells.
GolRunInit ==
    /\ game \in {[NewGame(Width, Height) EXCEPT !.current_generation = c] :
                    c \in {g \in Grids(Width, Height) : LiveCells(g) <= MaxLive}}
    /\ before = game
    /\ gop = NoOp
    /\ lock = "ok"
    /\ reply = NoReply
    /\ served = 0

\* advance_generation: step() under the write lock, then the frame of the new
\* generation; one call after another.
AdvanceGeneration(parallelism, paint) ==
    /\ game.generation_count < MaxGen
    /\ served < MaxCommands
    /\ served' = served + 1
    /\ before' = game
    /\ gop' = [name |-> "step", parallelism |-> parallelism]
    /\ IF lock = "poisoned"
       THEN game' = game /\ reply' = Panic
       ELSE /\ game' = step(game, parallelism, {})
            /\ reply' = create_frame_message(to_rgb_data(game', paint))
    /\ UNCHANGED <<lock, notGol>>

\* step_fallback(), one call after another.
AdvanceFallback ==
    /\ game.generation_count < MaxGen
    /\ before' = game
    /\ gop' = [name |-> "step_fallback", parallelism |-> 0]
    /\ game' = step_fallback(game)
    /\ UNCHANGED <<lock, reply, served, notGol>>

GolRunNext ==
    \/ \E parallelism \in 1..MaxParallelism : \E paint \in Paints :
            AdvanceGeneration(parallelism, paint)
    \/ AdvanceFallback

(***************************************************************************)
(* patterns/gol.rs: the commands on GAME_STATE, taken one at a time        *)
(***************************************************************************)
\* A command with the coordinates it was given or drew.
Command(name, x, y) == [name |-> name, parallelism |-> 0, x |-> x, y |-> y]

\* The patterns initialize_random is tried with: at most one live cell, or all.
SeedSample ==
    {c \in Grids(Width, Height) : LiveCells(c) <= 1 \/ LiveCells(c) = Width * Height}

\* The u16 coordinates tried: on the canvas, and one past its last column or
\* row.
XSample == 0..CANVAS_WIDTH
YSample == 0..CANVAS_HEIGHT

\* current_generation: to_rgb_data under the read lock.
CurrentGeneration(paint) ==
    /\ served < MaxCommands
    /\ served' = served + 1
    /\ before' = game
    /\ gop' = Command("current_generation", 0, 0)
    /\ reply' = IF lock = "poisoned" THEN Panic
                ELSE create_frame_message(to_rgb_data(game, paint))
    /\ UNCHANGED <<game, lock, notGol>>

\* awaken_random_cell; x and y are the coordinates drawn, rgb the colour.
AwakenRandomCell(x, y, rgb) ==
    /\ x \in random_range(0, game.width)
    /\ y \in random_range(0, game.height)
    /\ served < MaxCommands
    /\ served' = served + 1
    /\ before' = game
    /\ gop' = Command("awaken_random_cell", x, y)
    /\ IF lock = "poisoned"
       THEN game' = game /\ reply' = Panic
       ELSE /\ game' = awaken_random_cell(game, x, y)
            /\ reply' = create_pixel_message(x, y, rgb[1], rgb[2], rgb[3])
    /\ UNCHANGED <<lock, notGol>>

\* awaken_cell(x, y): awaken_cell_in under the write lock; a panic while the
\* write guard is held poisons the lock.
AwakenCell(x, y, rgb) ==
    /\ served < MaxCommands
    /\ served' = served + 1
    /\ before' = game
    /\ gop' = Command("awaken_cell", x, y)
    /\ IF lock = "poisoned"
       THEN game' = game /\ reply' = Panic /\ lock' = lock
       ELSE IF ~Indexable(game, x, y)
       THEN game' = game /\ reply' = Panic /\ lock' = "poisoned"
       ELSE /\ game' = awaken_cell_in(game, x, y)
            /\ reply' = create_pixel_message(x, y, rgb[1], rgb[2], rgb[3])
            /\ lock' = lock
    /\ UNCHANGED notGol

\* kill_random_cell; x and y are the coordinates drawn.
KillRandomCell(x, y) ==
    /\ x \in random_range(0, game.width)
    /\ y \in random_range(0, game.height)
    /\ served < MaxCommands
    /\ served' = served + 1
    /\ before' = game
    /\ gop' = Command("kill_random_cell", x, y)
    /\ IF lock = "poisoned"
       THEN game' = game /\ reply' = Panic
       ELSE /\ game' = kill_random_cell(game, x, y)
            /\ reply' = create_pixel_message(x, y, DEAD_CELL_R_G_B[1],
                                             DEAD_CELL_R_G_B[2], DEAD_CELL_R_G_B[3])
    /\ UNCHANGED <<lock, notGol>>

\* kill_all_cells, then the frame of the emptied grid.
KillAllCells(paint) ==
    /\ served < MaxCommands
    /\ served' = served + 1
    /\ before' = game
    /\ gop' = Command("kill_all_cells", 0, 0)
    /\ IF lock = "poisoned"
       THEN game' = game /\ reply' = Panic
       ELSE /\ game' = kill_all_cells(game)
            /\ reply' = create_frame_message(to_rgb_data(game', paint))
    /\ UNCHANGED <<lock, notGol>>

\* create_new_generation: reset_game_of_life_random, then the frame.
CreateNewGeneration(pattern, paint) ==
    /\ served < MaxCommands
    /\ served' = served + 1
    /\ before' = game
    /\ gop' = Command("create_new_generation", 0, 0)
    /\ IF lock = "poisoned"
       THEN game' = game /\ reply' = Panic
       ELSE /\ game' = initialize_random(game, pattern)
            /\ reply' = create_frame_message(to_rgb_data(game', paint))
    /\ UNCHANGED <<lock, notGol>>

CommandNext ==
    \/ \E paint \in Paints : CurrentGeneration(paint)
    \/ \E x \in XSample : \E y \in YSample : \E rgb \in RgbSample :
            AwakenRandomCell(x, y, rgb)
    \/ \E x \in XSample : \E y \in YSample : \E rgb \in RgbSample : AwakenCell(x, y, rgb)
    \/ \E x \in XSample : \E y \in YSample : KillRandomCell(x, y)
    \/ \E paint \in Paints : KillAllCells(paint)
    \/ \E pattern \in SeedSample : \E paint \in Paints :
            CreateNewGeneration(pattern, paint)
    \/ \E parallelism \in 1..MaxParallelism : \E paint \in Paints :
            AdvanceGeneration(parallelism, paint)

\* ---- the operations of GameOfLifeVecs in any order
\* One operation of the object: what it is called, the inputs it was given
\* or drew, and the object it leaves.
Operate(name, x, y, result) ==
    /\ served' = served + 1
    /\ before' = game
    /\ gop' = Command(name, x, y)
    /\ game' = result
    /\ UNCHANGED <<lock, reply, notGol>>

OpStep(parallelism) ==
    /\ served < MaxCommands
    /\ game.generation_count < MaxGen
    /\ Operate("step", 0, 0, step(game, parallelism, {}))

OpStepFallback ==
    /\ served < MaxCommands
    /\ game.generation_count < MaxGen
    /\ Operate("step_fallback", 0, 0, step_fallback(game))

\* awaken_cell_in(x, y); off the grid the index panics and the object is as
\* it was.
OpAwakenCellIn(x, y) ==
    /\ served < MaxCommands
    /\ Operate("awaken_cell_in", x, y,
               IF Indexable(game, x, y) THEN awaken_cell_in(game, x, y) ELSE game)

OpAwakenRandomCell(x, y) ==
    /\ served < MaxCommands
    /\ x \in random_range(0, game.width)
    /\ y \in random_range(0, game.height)
    /\ Operate("awaken_random_cell", x, y, awaken_random_cell(game, x, y))

OpKillRandomCell(x, y) ==
    /\ served < MaxCommands
    /\ x \in random_range(0, game.width)
    /\ y \in random_range(0, game.height)
    /\ Operate("kill_random_cell", x, y, kill_random_cell(game, x, y))

OpKillAllCells ==
    /\ served < MaxCommands
    /\ Operate("kill_all_cells", 0, 0, kill_all_cells(game))

OpInitializeRandom(pattern) ==
    /\ served < MaxCommands
    /\ Operate("initialize_random", 0, 0, initialize_random(game, pattern))

OpInitializeGlider ==
    /\ served < MaxCommands
    /\ Operate("initialize_glider", 0, 0, initialize_glider(game))

OpInitializeBlinker ==
    /\ served < MaxCommands
    /\ Operate("initialize_blinker", 0, 0, initialize_blinker(game))

OpsNext ==
    \/ \E parallelism \in 1..MaxParallelism : OpStep(parallelism)
    \/ OpStepFallback
    \/ \E x \in XSample : \E y \in YSample : OpAwakenCellIn(x, y)
    \/ \E x \in XSample : \E y \in YSample : OpAwakenRandomCell(x, y)
    \/ \E x \in XSample : \E y \in YSample : OpKillRandomCell(x, y)
    \/ OpKillAllCells
    \/ \E pattern \in SeedSample : OpInitializeRandom(pattern)
    \/ OpInitializeGlider
    \/ OpInitializeBlinker

(***************************************************************************)
(* socket.rs and message.rs: the connections around the broadcast channel  *)
(*                                                                         *)
(* A step of a task is the code between two of its await points that       *)
(* touches shared state at most once.  tokio's broadcast channel keeps the *)
(* last ChannelCap messages; a Receiver is a cursor into chan.             *)
(***************************************************************************)
\* Connections that are opened during a run.
NumConns == 2
\* Capacity of the broadcast channel (AppState::new(channel_cap, _)).
ChannelCap == 1
\* Frames the clients send during a run.
MaxFrames == 2

\* AppState::new(channel_cap, messages_cap): the capacity the replay buffer is
\* created with.
MessagesCap == 1

\* The driver thread of main.rs: not started in the other servers.
NoDriver == [pc |-> "none", ticks |-> 0]

\* How many frames the driver thread publishes in a run.
MaxTicks == 1

MAX_CONSECUTIVE_ERRORS == 5

Conns == 1..NumConns

\* The two connection handlers the repository holds; a server is built with one.
Builds == {"socket.rs", "message.rs"}

\* A message as it travels through the hub: id is the number of the client
\* frame that produced it.
HubMessage(id, kind) == [id |-> id, kind |-> kind]
NoHubMessage == HubMessage(0, "none")

\* What a client can put on its socket: binary frames (a pixel request, a
\* hello, and one frame for each way decode_ws_message fails), a text frame,
\* a ping, and the end of the stream (None, or Some(Err)).
BinaryFrames ==
    { <<1, 42, 0, 0, 0, 0, 0>>, <<1, 1, 0, 0, 0, 0, 0>>,
      <<1, 42, 0>>, <<2, 42, 0, 0, 0, 0, 0>>, <<1, 42, 0, 0, 0, 0, 1>> }

ClientFrames ==
    {[kind |-> "binary", bytes |-> b] : b \in BinaryFrames}
        \cup {[kind |-> k, bytes |-> <<>>] : k \in {"text", "ping", "none", "error"}}

\* The kind of a frame, as the inbound task tells them apart.
Classify(f) ==
    IF f.kind = "binary"
    THEN (IF decode_ws_message(f.bytes).err = "none" THEN "binary" ELSE "undecodable")
    ELSE IF f.kind \in {"none", "error"} THEN "closed" ELSE f.kind

\* WsPayload::handle_payload: one outbound message for every decoded command.
handle_payload(parsed) ==
    IF parsed.msg_type = SEND_PIXEL
    THEN HubMessage(frames + 1, "pixel")
    ELSE HubMessage(frames + 1, "echo")

\* broadcast::Sender::receiver_count: a Receiver lives from subscribe() to the
\* end of the outbound task that owns it.
receiver_count ==
    Cardinality({c \in Conns : outbound[c].st \in {"subscribed", "run"}})

\* broadcast::Sender::send: an error, and nothing kept, when no Receiver exists.
send(m) ==
    IF receiver_count = 0
    THEN [ok |-> FALSE, chan |-> chan]
    ELSE [ok |-> TRUE, chan |-> Append(chan, m)]

\* The cursor of the oldest message the channel still holds.
oldest == IF Len(chan) > ChannelCap THEN Len(chan) - ChannelCap ELSE 0

\* A receive that hands out the newest message whatever the cursor is.
recv_newest(next) ==
    [lagged |-> FALSE, msg |-> chan[Len(chan)], next |-> next + 1]

\* broadcast::Receiver::recv with the cursor at next and a message to get:
\* Err(Lagged) and the cursor moved to the oldest message kept when the
\* message at the cursor has been overwritten, else the message at the cursor.
recv(next) ==
    IF next < oldest
    THEN [lagged |-> TRUE, msg |-> NoHubMessage, next |-> oldest]
    ELSE [lagged |-> FALSE, msg |-> chan[next + 1], next |-> next + 1]

NewOutbound == [st |-> "none", next |-> 0, errors |-> 0, skipped |-> FALSE]
NewInbound ==
    [st |-> "none", pc |-> "next", held |-> NoHubMessage, cancel |-> FALSE,
     idle |-> FALSE]

\* The end of an outbound task, which drops its Receiver.
Ended(st) == [st |-> st, next |-> 0, errors |-> 0, skipped |-> FALSE]

\* An abort that is forgotten: the task keeps running.
abort_outbound_missing(t) == t

\* JoinHandle::abort on the outbound task: it is always at an await point.
abort_outbound(t) ==
    IF t.st = "run" THEN Ended("aborted") ELSE t

\* JoinHandle::abort on the inbound task: a task waiting in next() is cancelled
\* there; one that is being polled (between its push to the replay buffer and
\* its send, or handling the frame it has read) runs on to its next await point.
abort_inbound(t) ==
    IF t.st # "run" THEN t
    ELSE IF t.pc # "next" THEN [t EXCEPT !.cancel = TRUE]
    ELSE [t EXCEPT !.st = "aborted"]

HubIdle ==
    /\ build = "none"
    /\ chan = <<>>
    /\ messages = <<>>
    /\ frames = 0
    /\ budget = MaxFrames
    /\ driver = NoDriver
    /\ handler = [c \in Conns |-> "closed"]
    /\ replay = [c \in Conns |-> <<>>]
    /\ mark = [c \in Conns |-> [read |-> 0, sub |-> 0]]
    /\ outbound = [c \in Conns |-> NewOutbound]
    /\ inbound = [c \in Conns |-> NewInbound]
    /\ wire = [c \in Conns |-> <<>>]
    /\ sink = [c \in Conns |-> TRUE]
    /\ lastFrame = [conn |-> 0, kind |-> "none", late |-> FALSE]

\* AppState::new: an empty channel and an empty replay buffer, no connection
\* yet, in a server built with either handler.
HubInit ==
    /\ build \in Builds
    /\ chan = <<>>
    /\ messages = <<>>
    /\ frames = 0
    /\ budget = MaxFrames
    /\ driver = NoDriver
    /\ handler = [c \in Conns |-> "closed"]
    /\ replay = [c \in Conns |-> <<>>]
    /\ mark = [c \in Conns |-> [read |-> 0, sub |-> 0]]
    /\ outbound = [c \in Conns |-> NewOutbound]
    /\ inbound = [c \in Conns |-> NewInbound]
    /\ wire = [c \in Conns |-> <<>>]
    /\ sink = [c \in Conns |-> TRUE]
    /\ lastFrame = [conn |-> 0, kind |-> "none", late |-> FALSE]

\* The entries of a wire: a message id and how it got there.
Replayed(ms) == [i \in 1..Len(ms) |-> <<ms[i].id, "replay">>]

\* ---- socket.rs
\* In the steps that write to the socket of a client, gone tells whether the
\* client has gone away since the last write; once it has, every write fails.

\* handle_socket up to the clone of the replay buffer in
\* handle_previous_messages_from_state.
HandleSocket(c) ==
    /\ build = "socket.rs"
    /\ handler[c] = "closed"
    /\ handler' = [handler EXCEPT ![c] = "replay"]
    /\ replay' = [replay EXCEPT ![c] = messages]
    /\ mark' = [mark EXCEPT ![c].read = Len(chan)]
    /\ UNCHANGED <<build, chan, messages, frames, outbound, inbound, wire,
                   sink, lastFrame, budget, driver, notHub>>

\* The rest of handle_previous_messages_from_state (the clone is written to
\* the socket), then channel.subscribe() and the spawn of both tasks.
HandlePreviousMessages(c, gone) ==
    /\ build = "socket.rs"
    /\ handler[c] = "replay"
    /\ sink' = [sink EXCEPT ![c] = @ /\ ~gone]
    /\ wire' = [wire EXCEPT ![c] = IF sink[c] /\ ~gone THEN @ \o Replayed(replay[c])
                                   ELSE @]
    /\ mark' = [mark EXCEPT ![c].sub = Len(chan)]
    /\ outbound' = [outbound EXCEPT ![c] = [NewOutbound EXCEPT !.st = "run", !.next = Len(chan)]]
    /\ inbound' = [inbound EXCEPT ![c] = [NewInbound EXCEPT !.st = "run"]]
    /\ handler' = [handler EXCEPT ![c] = "select"]
    /\ UNCHANGED <<build, chan, messages, frames, replay, lastFrame, budget, driver, notHub>>

\* One turn of the loop of handle_receive_from_channel: the loop ends on
\* Err(Lagged) and on a failed write.
HandleReceiveFromChannel(c, gone) ==
    /\ build = "socket.rs"
    /\ outbound[c].st = "run"
    /\ outbound[c].next < Len(chan)
    /\ LET r == recv(outbound[c].next) IN
       IF r.lagged
       THEN /\ outbound' = [outbound EXCEPT ![c] = Ended("done")]
            /\ UNCHANGED <<wire, sink>>
       ELSE IF sink[c] /\ ~gone
       THEN /\ outbound' = [outbound EXCEPT ![c].next = r.next]
            /\ wire' = [wire EXCEPT ![c] = Append(@, <<r.msg.id, "live">>)]
            /\ UNCHANGED sink
       ELSE /\ outbound' = [outbound EXCEPT ![c] = Ended("done")]
            /\ sink' = [sink EXCEPT ![c] = FALSE]
            /\ UNCHANGED wire
    /\ UNCHANGED <<build, chan, messages, frames, handler, replay, mark,
                   inbound, lastFrame, budget, driver, notHub>>

\* What one turn of the loop of handle_send_to_channel does with frame f, up to
\* its first access to shared state after the frame is decoded.
handle_send_to_channel(c, f) ==
    LET t == inbound[c]
        same == [inbound |-> t, messages |-> messages, chan |-> chan]
    IN  IF f.kind = "binary"
        THEN LET r == decode_ws_message(f.bytes) IN
             IF r.err # "none" THEN same
             ELSE LET encoded == handle_payload(r.msg) IN
                  IF r.msg.msg_type = SEND_PIXEL
                  THEN [same EXCEPT !.inbound = [t EXCEPT !.pc = "send", !.held = encoded],
                                    !.messages = Append(messages, encoded)]
                  ELSE [same EXCEPT !.inbound = IF send(encoded).ok THEN t
                                                ELSE [t EXCEPT !.st = "done"],
                                    !.chan = send(encoded).chan]
        ELSE IF f.kind = "text"
        THEN [same EXCEPT !.inbound = [t EXCEPT !.st = "done"],
                          !.chan = send(HubMessage(frames + 1, "text")).chan]
        ELSE IF f.kind = "ping" THEN same
        ELSE [same EXCEPT !.inbound = [t EXCEPT !.st = "done"]]

HandleSendToChannel(c, f) ==
    /\ build = "socket.rs"
    /\ inbound[c].st = "run"
    /\ inbound[c].pc = "next"
    /\ frames < budget
    /\ frames' = frames + 1
    /\ lastFrame' = [conn |-> c, kind |-> Classify(f), late |-> FALSE]
    /\ LET r == handle_send_to_channel(c, f) IN
        /\ inbound' = [inbound EXCEPT ![c] = r.inbound]
        /\ messages' = r.messages
        /\ chan' = r.chan
    /\ UNCHANGED <<build, handler, replay, mark, outbound, wire, sink, budget, driver, notHub>>

\* channel_sender.send(encoded) after the push to the replay buffer.
HandleSendToChannelSend(c) ==
    /\ build = "socket.rs"
    /\ inbound[c].st = "run"
    /\ inbound[c].pc = "send"
    /\ chan' = send(inbound[c].held).chan
    /\ inbound' = [inbound EXCEPT ![c] =
                    [@ EXCEPT !.st = IF ~send(inbound[c].held).ok THEN "done"
                                     ELSE IF inbound[c].cancel THEN "aborted" ELSE "run",
                              !.pc = "next", !.held = NoHubMessage, !.cancel = FALSE]]
    /\ UNCHANGED <<build, messages, frames, handler, replay, mark, outbound,
                   wire, sink, lastFrame, budget, driver, notHub>>

\* tokio::select! over the two JoinHandles: the arm of a finished task aborts
\* the other task, and the handler returns.
select(c) ==
    [outbound |-> IF inbound[c].st = "done" THEN abort_outbound(outbound[c])
                  ELSE outbound[c],
     inbound |-> IF outbound[c].st = "done" THEN abort_inbound(inbound[c])
                 ELSE inbound[c]]

HandleSocketSelect(c) ==
    /\ build = "socket.rs"
    /\ handler[c] = "select"
    /\ outbound[c].st = "done" \/ inbound[c].st = "done"
    /\ outbound' = [outbound EXCEPT ![c] = select(c).outbound]
    /\ inbound' = [inbound EXCEPT ![c] = select(c).inbound]
    /\ handler' = [handler EXCEPT ![c] = "returned"]
    /\ UNCHANGED <<build, chan, messages, frames, replay, mark, wire, sink,
                   lastFrame, budget, driver, notHub>>

\* ---- message.rs

\* SocketHandler::send_current_generation: the frame of the grid as it is now.
SendCurrentGeneration(c, gone) ==
    /\ build = "message.rs"
    /\ handler[c] = "closed"
    /\ handler' = [handler EXCEPT ![c] = "replay"]
    /\ mark' = [mark EXCEPT ![c].read = Len(chan)]
    /\ sink' = [sink EXCEPT ![c] = @ /\ ~gone]
    /\ wire' = [wire EXCEPT ![c] = IF sink[c] /\ ~gone THEN Append(@, <<0, "snapshot">>)
                                   ELSE @]
    /\ UNCHANGED <<build, chan, messages, frames, replay, outbound, inbound,
                   lastFrame, budget, driver, notHub>>

\* SocketHandler::run up to the select: subscribe, spawn both tasks.  The
\* inbound task starts with the timeout test at the top of its loop; late
\* tells whether more than ACTIVITY_TIMEOUT has passed since ChannelSender::new.
SocketHandlerRun(c, late) ==
    /\ build = "message.rs"
    /\ handler[c] = "replay"
    /\ mark' = [mark EXCEPT ![c].sub = Len(chan)]
    /\ outbound' = [outbound EXCEPT ![c] = [NewOutbound EXCEPT !.st = "run", !.next = Len(chan)]]
    /\ inbound' = [inbound EXCEPT ![c] =
                    [NewInbound EXCEPT !.st = IF late THEN "done" ELSE "run"]]
    /\ handler' = [handler EXCEPT ![c] = "select"]
    /\ UNCHANGED <<build, chan, messages, frames, replay, wire, sink,
                   lastFrame, budget, driver, notHub>>

\* A receiver loop that never sets consecutive_errors back to 0.
ChannelReceiverRun_no_reset(c, gone) ==
    /\ build = "message.rs"
    /\ outbound[c].st = "run"
    /\ outbound[c].next < Len(chan)
    /\ LET r == recv(outbound[c].next)
           consecutive_errors == outbound[c].errors + 1
       IN  IF r.lagged
           THEN /\ outbound' = [outbound EXCEPT ![c] =
                        IF consecutive_errors >= MAX_CONSECUTIVE_ERRORS
                        THEN Ended("done")
                        ELSE [st |-> "run", next |-> r.next,
                              errors |-> consecutive_errors, skipped |-> TRUE]]
                /\ UNCHANGED <<wire, sink>>
           ELSE IF sink[c] /\ ~gone
           THEN /\ outbound' = [outbound EXCEPT ![c].next = r.next]
                /\ wire' = [wire EXCEPT ![c] = Append(@, <<r.msg.id, "live">>)]
                /\ UNCHANGED sink
           ELSE /\ outbound' = [outbound EXCEPT ![c] = Ended("done")]
                /\ sink' = [sink EXCEPT ![c] = FALSE]
                /\ UNCHANGED wire
    /\ UNCHANGED <<build, chan, messages, frames, handler, replay, mark,
                   inbound, lastFrame, budget, driver, notHub>>

\* One turn of the loop of ChannelReceiver::run.
ChannelReceiverRun(c, gone) ==
    /\ build = "message.rs"
    /\ outbound[c].st = "run"
    /\ outbound[c].next < Len(chan)
    /\ LET r == recv(outbound[c].next)
           consecutive_errors == outbound[c].errors + 1
       IN  IF r.lagged
           THEN /\ outbound' = [outbound EXCEPT ![c] =
                        IF consecutive_errors >= MAX_CONSECUTIVE_ERRORS
                        THEN Ended("done")
                        ELSE [st |-> "run", next |-> r.next,
                              errors |-> consecutive_errors, skipped |-> TRUE]]
                /\ UNCHANGED <<wire, sink>>
           ELSE IF sink[c] /\ ~gone
           THEN /\ outbound' = [outbound EXCEPT ![c].next = r.next, ![c].errors = 0]
                /\ wire' = [wire EXCEPT ![c] = Append(@, <<r.msg.id, "live">>)]
                /\ UNCHANGED sink
           ELSE /\ outbound' = [outbound EXCEPT ![c] = Ended("done")]
                /\ sink' = [sink EXCEPT ![c] = FALSE]
                /\ UNCHANGED wire
    /\ UNCHANGED <<build, chan, messages, frames, handler, replay, mark,
                   inbound, lastFrame, budget, driver, notHub>>

\* ChannelSender::handle_binary_message: Err for a frame that does not decode
\* and for a failed send.
handle_binary_message(c, f) ==
    LET r == decode_ws_message(f.bytes) IN
    IF r.err # "none"
    THEN [ok |-> FALSE, chan |-> chan]
    ELSE LET encoded == handle_payload(r.msg) IN
         [ok |-> send(encoded).ok, chan |-> send(encoded).chan]

\* ChannelSender::handle_text_message: Err only for a failed send.
handle_text_message(c) ==
    LET error_msg == HubMessage(frames + 1, "text") IN
    [ok |-> send(error_msg).ok, chan |-> send(error_msg).chan]

\* The match on socket_receiver.next() in ChannelSender::run: every Err ends
\* the task (the ? operator), Ok goes back to the top of the loop.
channel_sender_run(c, f) ==
    IF f.kind = "binary" THEN handle_binary_message(c, f)
    ELSE IF f.kind = "text" THEN handle_text_message(c)
    ELSE IF f.kind = "ping" THEN [ok |-> TRUE, chan |-> chan]
    ELSE [ok |-> FALSE, chan |-> chan]

\* One turn of the loop of ChannelSender::run, from the frame that next()
\* yields to the timeout test at the top of the next turn; late tells whether
\* more than ACTIVITY_TIMEOUT passes between the two.
ChannelSenderRun(c, f, late) ==
    /\ build = "message.rs"
    /\ inbound[c].st = "run"
    /\ frames < budget
    /\ frames' = frames + 1
    /\ lastFrame' = [conn |-> c, kind |-> Classify(f), late |-> late]
    /\ LET r == channel_sender_run(c, f) IN
        /\ inbound' = [inbound EXCEPT ![c].st = IF r.ok /\ ~late THEN "run" ELSE "done",
                                      ![c].idle = FALSE]
        /\ chan' = r.chan
    /\ UNCHANGED <<build, messages, handler, replay, mark, outbound, wire, sink,
                   budget, driver, notHub>>

\* A select whose teardown of one connection ends the outbound task of every
\* connection.
SocketHandlerSelect_ending_all(c) ==
    /\ build = "message.rs"
    /\ handler[c] = "select"
    /\ outbound[c].st = "done" \/ inbound[c].st = "done"
    /\ outbound' = [d \in Conns |->
                        IF d = c THEN select(c).outbound ELSE abort_outbound(outbound[d])]
    /\ inbound' = [inbound EXCEPT ![c] = select(c).inbound]
    /\ handler' = [handler EXCEPT ![c] = "returned"]
    /\ UNCHANGED <<build, chan, messages, frames, replay, mark, wire, sink,
                   lastFrame, budget, driver, notHub>>

SocketHandlerSelect(c) ==
    /\ build = "message.rs"
    /\ handler[c] = "select"
    /\ outbound[c].st = "done" \/ inbound[c].st = "done"
    /\ outbound' = [outbound EXCEPT ![c] = select(c).outbound]
    /\ inbound' = [inbound EXCEPT ![c] = select(c).inbound]
    /\ handler' = [handler EXCEPT ![c] = "returned"]
    /\ UNCHANGED <<build, chan, messages, frames, replay, mark, wire, sink,
                   lastFrame, budget, driver, notHub>>

\* ---- message.rs, the inbound task's turn in its two halves
\* How many inbound tasks hold a frame they have read and not yet handled.
InHand == Cardinality({c \in Conns : inbound[c].st = "run" /\ inbound[c].pc = "handle"})

\* socket_receiver.next() yields the frame f to the inbound task of c; the task
\* is polled from here to its next await point.
ChannelSenderTakes(c, f) ==
    /\ build = "message.rs"
    /\ inbound[c].st = "run"
    /\ inbound[c].pc = "next"
    /\ frames + InHand < budget
    /\ inbound' = [inbound EXCEPT ![c].pc = "handle", ![c].held = f, ![c].idle = FALSE]
    /\ UNCHANGED <<build, chan, messages, frames, handler, replay, mark, outbound,
                   wire, sink, lastFrame, budget, driver, notHub>>

\* The rest of the turn: the match on the frame, the timeout test at the top
\* of the next turn, and next().await, where a task that was aborted
\* meanwhile is cancelled.
ChannelSenderHandles(c, late) ==
    /\ build = "message.rs"
    /\ inbound[c].st = "run"
    /\ inbound[c].pc = "handle"
    /\ frames' = frames + 1
    /\ lastFrame' = [conn |-> c, kind |-> Classify(inbound[c].held), late |-> late]
    /\ LET r == channel_sender_run(c, inbound[c].held) IN
        /\ inbound' = [inbound EXCEPT ![c] =
                        [@ EXCEPT !.st = IF ~r.ok \/ late THEN "done"
                                         ELSE IF inbound[c].cancel THEN "aborted"
                                         ELSE "run",
                                  !.pc = "next", !.held = NoHubMessage,
                                  !.cancel = FALSE]]
        /\ chan' = r.chan
    /\ UNCHANGED <<build, messages, handler, replay, mark, outbound, wire, sink,
                   budget, driver, notHub>>

TeardownNext ==
    \/ \E c \in Conns : \E gone \in BOOLEAN : SendCurrentGeneration(c, gone)
    \/ \E c \in Conns : \E late \in BOOLEAN : SocketHandlerRun(c, late)
    \/ \E c \in Conns : \E gone \in BOOLEAN : ChannelReceiverRun(c, gone)
    \/ \E c \in Conns : \E f \in ClientFrames : ChannelSenderTakes(c, f)
    \/ \E c \in Conns : \E late \in BOOLEAN : ChannelSenderHandles(c, late)
    \/ \E c \in Conns : SocketHandlerSelect(c)

\* ---- message.rs with clients that send many commands
\* How many frames the clients send in a run that is to make a receiver lag
\* again and again.
DeepFrames == 6

\* A command that every build answers with one published message.
Hello == [kind |-> "binary", bytes |-> <<1, 1, 0, 0, 0, 0, 0>>]

LagInit ==
    /\ build = "message.rs"
    /\ chan = <<>>
    /\ messages = <<>>
    /\ frames = 0
    /\ budget = DeepFrames
    /\ driver = NoDriver
    /\ handler = [c \in Conns |-> "closed"]
    /\ replay = [c \in Conns |-> <<>>]
    /\ mark = [c \in Conns |-> [read |-> 0, sub |-> 0]]
    /\ outbound = [c \in Conns |-> NewOutbound]
    /\ inbound = [c \in Conns |-> NewInbound]
    /\ wire = [c \in Conns |-> <<>>]
    /\ sink = [c \in Conns |-> TRUE]
    /\ lastFrame = [conn |-> 0, kind |-> "none", late |-> FALSE]

\* The first client sends commands and closes its socket; the other clients
\* only listen.
LagNext ==
    \/ \E c \in Conns : SendCurrentGeneration(c, FALSE)
    \/ \E c \in Conns : SocketHandlerRun(c, FALSE)
    \/ \E c \in Conns : \E gone \in BOOLEAN : ChannelReceiverRun(c, gone)
    \/ \E f \in {Hello, [kind |-> "none", bytes |-> <<>>]} :
            ChannelSenderRun(1, f, FALSE)
    \/ \E c \in Conns : SocketHandlerSelect(c)

\* ---- message.rs with clients that fall silent
\* More than ACTIVITY_TIMEOUT passes while the inbound task of c waits in
\* socket_receiver.next() for a frame: no code of the task runs at that moment,
\* the wait has no timer.  The next frame sets last_activity anew.
ActivityTimeoutPasses(c) ==
    /\ build = "message.rs"
    /\ inbound[c].st = "run"
    /\ ~inbound[c].idle
    /\ inbound' = [inbound EXCEPT ![c].idle = TRUE]
    /\ UNCHANGED <<build, chan, messages, frames, handler, replay, mark,
                   outbound, wire, sink, lastFrame, budget, driver, notHub>>

IdleInit ==
    /\ build = "message.rs"
    /\ chan = <<>>
    /\ messages = <<>>
    /\ frames = 0
    /\ budget = MaxFrames
    /\ driver = NoDriver
    /\ handler = [c \in Conns |-> "closed"]
    /\ replay = [c \in Conns |-> <<>>]
    /\ mark = [c \in Conns |-> [read |-> 0, sub |-> 0]]
    /\ outbound = [c \in Conns |-> NewOutbound]
    /\ inbound = [c \in Conns |-> NewInbound]
    /\ wire = [c \in Conns |-> <<>>]
    /\ sink = [c \in Conns |-> TRUE]
    /\ lastFrame = [conn |-> 0, kind |-> "none", late |-> FALSE]

IdleNext ==
    \/ \E c \in Conns : SendCurrentGeneration(c, FALSE)
    \/ \E c \in Conns : \E late \in BOOLEAN : SocketHandlerRun(c, late)
    \/ \E c \in Conns : ChannelReceiverRun(c, FALSE)
    \/ \E c \in Conns : \E f \in ClientFrames : \E late \in BOOLEAN :
            ChannelSenderRun(c, f, late)
    \/ \E c \in Conns : ActivityTimeoutPasses(c)
    \/ \E c \in Conns : SocketHandlerSelect(c)

\* ---- main.rs

\* main: the channel and the replay buffer are empty, the driver thread is
\* started, no connection yet.
MainInit ==
    /\ build = "main.rs"
    /\ chan = <<>>
    /\ messages = <<>>
    /\ frames = 0
    /\ budget = MaxFrames
    /\ driver = [pc |-> "sleep", ticks |-> 0]
    /\ handler = [c \in Conns |-> "closed"]
    /\ replay = [c \in Conns |-> <<>>]
    /\ mark = [c \in Conns |-> [read |-> 0, sub |-> 0]]
    /\ outbound = [c \in Conns |-> NewOutbound]
    /\ inbound = [c \in Conns |-> NewInbound]
    /\ wire = [c \in Conns |-> <<>>]
    /\ sink = [c \in Conns |-> TRUE]
    /\ lastFrame = [conn |-> 0, kind |-> "none", late |-> FALSE]

\* handle_socket of main.rs up to state.tx.subscribe().
MainSubscribe(c) ==
    /\ build = "main.rs"
    /\ handler[c] = "closed"
    /\ handler' = [handler EXCEPT ![c] = "replay"]
    /\ mark' = [mark EXCEPT ![c].sub = Len(chan)]
    /\ outbound' = [outbound EXCEPT ![c] =
                        [NewOutbound EXCEPT !.st = "subscribed", !.next = Len(chan)]]
    /\ UNCHANGED <<build, chan, messages, frames, replay, inbound, wire, sink,
                   lastFrame, budget, driver, notHub>>

\* The replay of handle_socket of main.rs under the read lock, which keeps
\* every push out until the replay is over; then the spawn of both tasks.  A
\* write that fails makes the handler return.
MainReplay(c, gone) ==
    /\ build = "main.rs"
    /\ handler[c] = "replay"
    /\ replay' = [replay EXCEPT ![c] = messages]
    /\ mark' = [mark EXCEPT ![c].read = Len(chan)]
    /\ sink' = [sink EXCEPT ![c] = @ /\ ~gone]
    /\ IF (sink[c] /\ ~gone) \/ messages = <<>>
       THEN /\ wire' = [wire EXCEPT ![c] = @ \o Replayed(messages)]
            /\ outbound' = [outbound EXCEPT ![c].st = "run"]
            /\ inbound' = [inbound EXCEPT ![c] = [NewInbound EXCEPT !.st = "run"]]
            /\ handler' = [handler EXCEPT ![c] = "select"]
       ELSE /\ outbound' = [outbound EXCEPT ![c] = Ended("none")]
            /\ handler' = [handler EXCEPT ![c] = "returned"]
            /\ UNCHANGED <<wire, inbound>>
    /\ UNCHANGED <<build, chan, messages, frames, lastFrame, budget, driver, notHub>>

\* One turn of the loop of send_task.
MainSendTask(c, gone) ==
    /\ build = "main.rs"
    /\ outbound[c].st = "run"
    /\ outbound[c].next < Len(chan)
    /\ LET r == recv(outbound[c].next) IN
       IF r.lagged
       THEN /\ outbound' = [outbound EXCEPT ![c] = Ended("done")]
            /\ UNCHANGED <<wire, sink>>
       ELSE IF sink[c] /\ ~gone
       THEN /\ outbound' = [outbound EXCEPT ![c].next = r.next]
            /\ wire' = [wire EXCEPT ![c] = Append(@, <<r.msg.id, "live">>)]
            /\ UNCHANGED sink
       ELSE /\ outbound' = [outbound EXCEPT ![c] = Ended("done")]
            /\ sink' = [sink EXCEPT ![c] = FALSE]
            /\ UNCHANGED wire
    /\ UNCHANGED <<build, chan, messages, frames, handler, replay, mark,
                   inbound, lastFrame, budget, driver, notHub>>

\* One turn of the loop of recv_task, up to tx.send(encoded) after a push.
MainRecvTask(c, f) ==
    /\ build = "main.rs"
    /\ inbound[c].st = "run"
    /\ inbound[c].pc = "next"
    /\ frames < budget
    /\ frames' = frames + 1
    /\ lastFrame' = [conn |-> c, kind |-> Classify(f), late |-> FALSE]
    /\ LET r == handle_send_to_channel(c, f) IN
        /\ inbound' = [inbound EXCEPT ![c] = r.inbound]
        /\ messages' = r.messages
        /\ chan' = r.chan
    /\ UNCHANGED <<build, handler, replay, mark, outbound, wire, sink,
                   budget, driver, notHub>>

\* tx.send(encoded) after the push to the replay buffer.
MainRecvTaskSend(c) ==
    /\ build = "main.rs"
    /\ inbound[c].st = "run"
    /\ inbound[c].pc = "send"
    /\ chan' = send(inbound[c].held).chan
    /\ inbound' = [inbound EXCEPT ![c] =
                    [@ EXCEPT !.st = IF ~send(inbound[c].held).ok THEN "done"
                                     ELSE IF inbound[c].cancel THEN "aborted" ELSE "run",
                              !.pc = "next", !.held = NoHubMessage, !.cancel = FALSE]]
    /\ UNCHANGED <<build, messages, frames, handler, replay, mark, outbound,
                   wire, sink, lastFrame, budget, driver, notHub>>

MainSelect(c) ==
    /\ build = "main.rs"
    /\ handler[c] = "select"
    /\ outbound[c].st = "done" \/ inbound[c].st = "done"
    /\ outbound' = [outbound EXCEPT ![c] = select(c).outbound]
    /\ inbound' = [inbound EXCEPT ![c] = select(c).inbound]
    /\ handler' = [handler EXCEPT ![c] = "returned"]
    /\ UNCHANGED <<build, chan, messages, frames, replay, mark, wire, sink,
                   lastFrame, budget, driver, notHub>>

\* The driver thread from the computation of its sleep to its test of
\* receiver_count: the unwrap panics when the target time has passed already
\* (late); with no receiver the thread goes round its loop.
DriverWakes(late) ==
    /\ build = "main.rs"
    /\ driver.pc = "sleep"
    /\ driver.ticks < MaxTicks
    /\ late \/ receiver_count > 0
    /\ driver' = [driver EXCEPT !.pc = IF late THEN "panicked" ELSE "send"]
    /\ UNCHANGED <<build, chan, messages, frames, handler, replay, mark,
                   outbound, inbound, wire, sink, lastFrame, budget, notHub>>

\* tx.send(create_binary_payload()) of the driver thread: break on Err.  The
\* payload is create_random_pixel_message(), a DRAW_PIXEL message; the ids of
\* the driver's messages are negative.
DriverSend ==
    /\ build = "main.rs"
    /\ driver.pc = "send"
    /\ LET r == send(HubMessage(0 - (driver.ticks + 1), "pixel")) IN
        /\ chan' = r.chan
        /\ driver' = IF r.ok THEN [pc |-> "sleep", ticks |-> driver.ticks + 1]
                     ELSE [driver EXCEPT !.pc = "stopped"]
    /\ UNCHANGED <<build, messages, frames, handler, replay, mark,
                   outbound, inbound, wire, sink, lastFrame, budget, notHub>>

MainNext ==
    \/ \E c \in Conns : MainSubscribe(c)
    \/ \E c \in Conns : \E gone \in BOOLEAN : MainReplay(c, gone)
    \/ \E c \in Conns : \E gone \in BOOLEAN : MainSendTask(c, gone)
    \/ \E c \in Conns : \E f \in ClientFrames : MainRecvTask(c, f)
    \/ \E c \in Conns : MainRecvTaskSend(c)
    \/ \E c \in Conns : MainSelect(c)
    \/ \E late \in BOOLEAN : DriverWakes(late)
    \/ DriverSend

HubNext ==
    \/ \E c \in Conns : HandleSocket(c)
    \/ \E c \in Conns : \E gone \in BOOLEAN : HandlePreviousMessages(c, gone)
    \/ \E c \in Conns : \E gone \in BOOLEAN : HandleReceiveFromChannel(c, gone)
    \/ \E c \in Conns : \E f \in ClientFrames : HandleSendToChannel(c, f)
    \/ \E c \in Conns : HandleSendToChannelSend(c)
    \/ \E c \in Conns : HandleSocketSelect(c)
    \/ \E c \in Conns : \E gone \in BOOLEAN : SendCurrentGeneration(c, gone)
    \/ \E c \in Conns : \E late \in BOOLEAN : SocketHandlerRun(c, late)
    \/ \E c \in Conns : \E gone \in BOOLEAN : ChannelReceiverRun(c, gone)
    \/ \E c \in Conns : \E f \in ClientFrames : \E late \in BOOLEAN :
            ChannelSenderRun(c, f, late)
    \/ \E c \in Conns : SocketHandlerSelect(c)

(***************************************************************************)
(* patterns/gol.rs under message.rs: commands of several connections at    *)
(* the same time.  ChannelSender::handle_binary_message calls               *)
(* handle_payload() and then channel_sender.send(encoded); the inbound     *)
(* tasks of different connections run on different worker threads, so the *)
(* steps of their commands interleave wherever no lock is held.            *)
(***************************************************************************)
\* No command in progress.
NoCall == [pc |-> "idle", name |-> "none", x |-> 0, y |-> 0, seq |-> 0,
           own |-> <<>>, msg |-> NoReply]

\* The cells the single-cell commands are given or draw.
ConcCells == {<<0, 0>>, <<1, 1>>}

\* The patterns GAME_STATE holds when the commands arrive.
ConcPatterns ==
    {initialize_blinker(NewGame(Width, Height)).current_generation,
     initialize_glider(NewGame(Width, Height)).current_generation}

CallsIdle == calls = [c \in Conns |-> NoCall]

\* Every connection is established: subscribed, both tasks running.
ConcInit ==
    /\ build = "message.rs"
    /\ chan = <<>>
    /\ messages = <<>>
    /\ frames = 0
    /\ budget = MaxFrames
    /\ driver = NoDriver
    /\ handler = [c \in Conns |-> "select"]
    /\ replay = [c \in Conns |-> <<>>]
    /\ mark = [c \in Conns |-> [read |-> 0, sub |-> 0]]
    /\ outbound = [c \in Conns |-> [NewOutbound EXCEPT !.st = "run"]]
    /\ inbound = [c \in Conns |-> [NewInbound EXCEPT !.st = "run"]]
    /\ wire = [c \in Conns |-> <<>>]
    /\ sink = [c \in Conns |-> TRUE]
    /\ lastFrame = [conn |-> 0, kind |-> "none", late |-> FALSE]
    /\ game \in {[NewGame(Width, Height) EXCEPT !.current_generation = c] :
                    c \in ConcPatterns}
    /\ before = game
    /\ gop = NoOp
    /\ lock = "ok"
    /\ reply = NoReply
    /\ served = 0
    /\ calls = [c \in Conns |-> NoCall]

\* The block of a command that holds the write guard of GAME_STATE: the
\* mutation is applied and the guard dropped.  seq numbers the mutations in
\* the order the lock admits them; own is the grid this mutation left.
Writes(c, name, x, y, result, message, pc) ==
    /\ served' = served + 1
    /\ before' = game
    /\ gop' = Command(name, x, y)
    /\ game' = result
    /\ calls' = [calls EXCEPT ![c] =
                    [pc |-> pc, name |-> name, x |-> x, y |-> y, seq |-> served + 1,
                     own |-> result.current_generation, msg |-> message]]
    /\ UNCHANGED <<lock, reply, codecVars, hubVars, bits, bitsBefore, life>>

\* advance_generation, its first block: GAME_STATE.write().unwrap().step().
AdvanceGenerationWrites(c, parallelism) ==
    /\ calls[c].pc = "idle"
    /\ served < MaxCommands
    /\ Writes(c, "advance_generation", 0, 0, step(game, parallelism, {}), NoReply, "read")

\* kill_all_cells, its first block.
KillAllCellsWrites(c) ==
    /\ calls[c].pc = "idle"
    /\ served < MaxCommands
    /\ Writes(c, "kill_all_cells", 0, 0, kill_all_cells(game), NoReply, "read")

\* awaken_cell(x, y) for a cell of the grid: the write block, then the pixel
\* message, which is built from x, y and a random colour alone.
AwakenCellWrites(c, x, y, rgb) ==
    /\ calls[c].pc = "idle"
    /\ served < MaxCommands
    /\ Indexable(game, x, y)
    /\ Writes(c, "awaken_cell", x, y, awaken_cell_in(game, x, y),
              create_pixel_message(x, y, rgb[1], rgb[2], rgb[3]), "send")

\* awaken_random_cell; x and y are the coordinates drawn.
AwakenRandomCellWrites(c, x, y, rgb) ==
    /\ calls[c].pc = "idle"
    /\ served < MaxCommands
    /\ x \in random_range(0, game.width)
    /\ y \in random_range(0, game.height)
    /\ Writes(c, "awaken_random_cell", x, y, awaken_random_cell(game, x, y),
              create_pixel_message(x, y, rgb[1], rgb[2], rgb[3]), "send")

\* kill_random_cell; x and y are the coordinates drawn.
KillRandomCellWrites(c, x, y) ==
    /\ calls[c].pc = "idle"
    /\ served < MaxCommands
    /\ x \in random_range(0, game.width)
    /\ y \in random_range(0, game.height)
    /\ Writes(c, "kill_random_cell", x, y, kill_random_cell(game, x, y),
              create_pixel_message(x, y, DEAD_CELL_R_G_B[1], DEAD_CELL_R_G_B[2],
                                   DEAD_CELL_R_G_B[3]), "send")

\* The second block of advance_generation and kill_all_cells:
\* GAME_STATE.read().unwrap().to_rgb_data(), then create_frame_message.
CommandReads(c, paint) ==
    /\ calls[c].pc = "read"
    /\ calls' = [calls EXCEPT ![c].pc = "send",
                              ![c].msg = create_frame_message(to_rgb_data(game, paint))]
    /\ UNCHANGED <<golVars, codecVars, hubVars, bits, bitsBefore, life>>

\* handle_binary_message: channel_sender.send(encoded) with the message the
\* command returned.
HandleBinaryMessageSends(c) ==
    /\ calls[c].pc = "send"
    /\ chan' = send([id |-> calls[c].seq, kind |-> calls[c].msg.kind, conn |-> c,
                     bytes |-> calls[c].msg.bytes]).chan
    /\ calls' = [calls EXCEPT ![c] = NoCall]
    /\ UNCHANGED <<build, messages, frames, budget, driver, handler, replay, mark,
                   outbound, inbound, wire, sink, lastFrame, golVars, codecVars,
                   bits, bitsBefore, life>>

ConcNext ==
    \/ \E c \in Conns : \E parallelism \in 1..MaxParallelism :
            AdvanceGenerationWrites(c, parallelism)
    \/ \E c \in Conns : KillAllCellsWrites(c)
    \/ \E c \in Conns : \E at \in ConcCells : \E rgb \in RgbSample :
            AwakenCellWrites(c, at[1], at[2], rgb)
    \/ \E c \in Conns : \E at \in ConcCells : \E rgb \in RgbSample :
            AwakenRandomCellWrites(c, at[1], at[2], rgb)
    \/ \E c \in Conns : \E at \in ConcCells : KillRandomCellWrites(c, at[1], at[2])
    \/ \E c \in Conns : \E paint \in Paints : CommandReads(c, paint)
    \/ \E c \in Conns : HandleBinaryMessageSends(c)

(***************************************************************************)
(* patterns/gol_simd.rs: GameOfLifeBits, 64 cells to a u64                 *)
(***************************************************************************)
BIT_LENGTH == 64

\* thread::available_parallelism().unwrap_or(8)
DEFAULT_PARALLELISM == 8

\* A u64 is held as the set of the positions of its 1 bits, 0 the lowest.
ZeroWord == {}

\* (word >> bit_x) & 1 == 1
BitIsSet(word, bit_x) == bit_x \in (word \cap (0..(BIT_LENGTH - 1)))

\* word | (1u64 << bit_x)
WithBit(word, bit_x) == word \cup ({bit_x} \cap (0..(BIT_LENGTH - 1)))

\* word & !(1u64 << bit_x)
WithoutBit(word, bit_x) == word \ {bit_x}

\* GameOfLifeBits::new before initialize_random: every chunk 0.
NewBits(w, h) ==
    LET width_chunks == (w + BIT_LENGTH - 1) \div BIT_LENGTH
        total_chunks == width_chunks * h
    IN  [width |-> w, height |-> h,
         current_generation |-> [i \in 1..total_chunks |-> ZeroWord],
         next_generation |-> [i \in 1..total_chunks |-> ZeroWord],
         generation_count |-> 0,
         width_chunks |-> width_chunks]

\* A get_chunk_index that leaves chunk_x out of the index.
get_chunk_index_first_chunk(b, x, y) ==
    [chunk_index |-> y * b.width_chunks, bit_x |-> x % 64]

\* GameOfLifeBits::get_chunk_index
get_chunk_index(b, x, y) ==
    LET chunk_x == x \div 64
        bit_x == x % 64
    IN  [chunk_index |-> y * b.width_chunks + chunk_x, bit_x |-> bit_x]

\* GameOfLifeBits::get_cell
get_cell(b, x, y) ==
    IF x >= b.width \/ y >= b.height THEN FALSE
    ELSE LET at == get_chunk_index(b, x, y) IN
         IF at.chunk_index >= Len(b.current_generation) THEN FALSE
         ELSE BitIsSet(b.current_generation[at.chunk_index + 1], at.bit_x)

\* GameOfLifeBits::set_cell
set_cell(b, x, y, alive) ==
    IF x >= b.width \/ y >= b.height THEN b
    ELSE LET at == get_chunk_index(b, x, y) IN
         IF at.chunk_index >= Len(b.current_generation) THEN b
         ELSE IF alive
         THEN [b EXCEPT !.current_generation[at.chunk_index + 1] = WithBit(@, at.bit_x)]
         ELSE [b EXCEPT !.current_generation[at.chunk_index + 1] = WithoutBit(@, at.bit_x)]

\* GameOfLifeBits::set_next_cell
set_next_cell(b, x, y, alive) ==
    IF x >= b.width \/ y >= b.height THEN b
    ELSE LET at == get_chunk_index(b, x, y) IN
         IF at.chunk_index >= Len(b.next_generation) THEN b
         ELSE IF alive
         THEN [b EXCEPT !.next_generation[at.chunk_index + 1] = WithBit(@, at.bit_x)]
         ELSE b

\* The cells of the grid, as <<x, y>>.
BitsCellsOf(b) == (0..(b.width - 1)) \X (0..(b.height - 1))

\* GameOfLifeBits::initialize_random; pattern holds the cells the random draws
\* choose.  Every chunk is cleared and set_cell(x, y, true) is called for each
\* chosen cell: each call ORs one bit into one chunk, so a chunk ends as the
\* bits of the chosen cells that get_chunk_index sends to it.
GameOfLifeBits_initialize_random(b, pattern) ==
    [b EXCEPT !.current_generation =
                [i \in 1..Len(b.current_generation) |->
                    {get_chunk_index(b, c[1], c[2]).bit_x :
                        c \in {d \in BitsCellsOf(b) :
                                /\ get_chunk_index(b, d[1], d[2]).chunk_index = i - 1
                                /\ pattern[d[2] + 1][d[1] + 1]}}],
              !.generation_count = 0]

\* A neighbour count that does not look past the u64 the cell is in.
count_neighbors_within_chunk(b, x, y) ==
    LET width == b.width
        height == b.height
        left == x % 64 > 0
        right == x < width - 1 /\ x % 64 < 63
        One(c) == IF c THEN 1 ELSE 0
    IN  (IF y > 0
         THEN One(left /\ get_cell(b, x - 1, y - 1))
              + One(get_cell(b, x, y - 1))
              + One(right /\ get_cell(b, x + 1, y - 1))
         ELSE 0)
        + One(left /\ get_cell(b, x - 1, y))
        + One(right /\ get_cell(b, x + 1, y))
        + (IF y < height - 1
           THEN One(left /\ get_cell(b, x - 1, y + 1))
                + One(get_cell(b, x, y + 1))
                + One(right /\ get_cell(b, x + 1, y + 1))
           ELSE 0)

\* GameOfLifeBits::count_neighbors_optimized
count_neighbors_optimized(b, x, y) ==
    LET width == b.width
        height == b.height
        One(c) == IF c THEN 1 ELSE 0
    IN  (IF y > 0
         THEN One(x > 0 /\ get_cell(b, x - 1, y - 1))
              + One(get_cell(b, x, y - 1))
              + One(x < width - 1 /\ get_cell(b, x + 1, y - 1))
         ELSE 0)
        + One(x > 0 /\ get_cell(b, x - 1, y))
        + One(x < width - 1 /\ get_cell(b, x + 1, y))
        + (IF y < height - 1
           THEN One(x > 0 /\ get_cell(b, x - 1, y + 1))
                + One(get_cell(b, x, y + 1))
                + One(x < width - 1 /\ get_cell(b, x + 1, y + 1))
           ELSE 0)

\* GameOfLifeBits::step_fallback: clear next_generation, call
\* set_next_cell(x, y, true) for every cell that is alive next, swap.  Each
\* call ORs one bit into one chunk of next_generation.
GameOfLifeBits_step_fallback(b) ==
    LET Alive(x, y) == next_alive(count_neighbors_optimized(b, x, y), get_cell(b, x, y))
        filled == [i \in 1..Len(b.next_generation) |->
                    {get_chunk_index(b, c[1], c[2]).bit_x :
                        c \in {d \in BitsCellsOf(b) :
                                /\ get_chunk_index(b, d[1], d[2]).chunk_index = i - 1
                                /\ Alive(d[1], d[2])}}]
    IN  [b EXCEPT !.current_generation = filled,
                  !.next_generation = b.current_generation]

\* get_chunk_index_for_parallel
get_chunk_index_for_parallel(x, y, width_chunks) ==
    LET chunk_x == x \div 64
        bit_x == x % 64
    IN  [chunk_index |-> y * width_chunks + chunk_x, bit_x |-> bit_x]

\* get_cell_for_parallel
get_cell_for_parallel(generation, x, y, width_chunks) ==
    LET at == get_chunk_index_for_parallel(x, y, width_chunks) IN
    IF at.chunk_index >= Len(generation) THEN FALSE
    ELSE BitIsSet(generation[at.chunk_index + 1], at.bit_x)

\* count_neighbors_for_parallel
count_neighbors_for_parallel(generation, x, y, width, height, width_chunks) ==
    LET One(c) == IF c THEN 1 ELSE 0
        Cell(cx, cy) == get_cell_for_parallel(generation, cx, cy, width_chunks)
    IN  (IF y > 0
         THEN One(x > 0 /\ Cell(x - 1, y - 1))
              + One(Cell(x, y - 1))
              + One(x < width - 1 /\ Cell(x + 1, y - 1))
         ELSE 0)
        + One(x > 0 /\ Cell(x - 1, y))
        + One(x < width - 1 /\ Cell(x + 1, y))
        + (IF y < height - 1
           THEN One(x > 0 /\ Cell(x - 1, y + 1))
                + One(Cell(x, y + 1))
                + One(x < width - 1 /\ Cell(x + 1, y + 1))
           ELSE 0)

\* What the thread with this id of step_parallel returns: (start_y,
\* local_next).  When start_y is past end_y the length of local_next,
\* width_chunks * (end_y - start_y), underflows: the subtraction panics where
\* overflow is checked and the allocation of the wrapped length panics where
\* it is not, so in every build join() returns Err for this thread.
step_parallel_worker(current_gen, thread_id, chunk, width, height, width_chunks) ==
    LET start_y == thread_id * chunk
        end_y == Min((thread_id + 1) * chunk, height)
        Alive(x, y) ==
            next_alive(count_neighbors_for_parallel(current_gen, x, y, width, height,
                                                    width_chunks),
                       get_cell_for_parallel(current_gen, x, y, width_chunks))
    IN  IF end_y < start_y
        THEN [ok |-> FALSE, start_y |-> start_y, end_y |-> end_y, local_next |-> <<>>]
        ELSE [ok |-> TRUE, start_y |-> start_y, end_y |-> end_y,
              local_next |->
                [i \in 1..(width_chunks * (end_y - start_y)) |->
                    {x % 64 : x \in {c \in 0..(width - 1) :
                        \E y \in start_y..(end_y - 1) :
                            /\ get_chunk_index_for_parallel(c, y - start_y, width_chunks)
                                    .chunk_index = i - 1
                            /\ Alive(c, y)}}]]

\* The loop over the handles of step_parallel: the chunks of every thread
\* that returned are copied to next_gen from start_y * width_chunks on.
RECURSIVE collect_results(_, _, _)
collect_results(next_gen, results, width_chunks) ==
    IF results = <<>> THEN next_gen
    ELSE LET r == Head(results)
             start_chunk == r.start_y * width_chunks
         IN  collect_results(
                IF r.ok
                THEN [j \in 1..Len(next_gen) |->
                        IF j - 1 >= start_chunk /\ j - 1 - start_chunk < Len(r.local_next)
                        THEN r.local_next[j - start_chunk]
                        ELSE next_gen[j]]
                ELSE next_gen,
                Tail(results), width_chunks)

\* The results of the threads of step_parallel, in spawn order; num_threads is
\* the available parallelism, whatever the height.
step_parallel_results(b, parallelism) ==
    LET threads == parallelism
        chunk == chunk_size(b.height, threads)
    IN  [t \in 1..threads |->
            step_parallel_worker(b.current_generation, t - 1, chunk,
                                 b.width, b.height, b.width_chunks)]

\* GameOfLifeBits::step_parallel
step_parallel(b, parallelism) ==
    LET next_gen == collect_results([i \in 1..Len(b.current_generation) |-> ZeroWord],
                                    step_parallel_results(b, parallelism),
                                    b.width_chunks)
    IN  [b EXCEPT !.current_generation = next_gen,
                  !.next_generation = b.current_generation,
                  !.generation_count = b.generation_count + 1]

\* GameOfLifeBits::step
GameOfLifeBits_step(b, parallelism) ==
    LET stepped == step_parallel(b, parallelism)
    IN  [stepped EXCEPT !.generation_count = stepped.generation_count + 1]

(***************************************************************************)
(* patterns/gol_archive.rs: GameOfLife, nested arrays                      *)
(***************************************************************************)
\* GameOfLife::count_live_neighbors
GameOfLife_count_live_neighbors(g, x, y) ==
    LET start_y == saturating_sub(y, 1)
        end_y == Min(y + 1, g.height - 1)
        start_x == saturating_sub(x, 1)
        end_x == Min(x + 1, g.width - 1)
    IN  Cardinality({c \in (start_x..end_x) \X (start_y..end_y) :
                        /\ ~(c[1] = x /\ c[2] = y)
                        /\ g.current_generation[c[2] + 1][c[1] + 1]})

\* GameOfLife::step
GameOfLife_step(g) ==
    LET next == [y \in 1..g.height |->
                    [x \in 1..g.width |->
                        LET neighbors == GameOfLife_count_live_neighbors(g, x - 1, y - 1)
                            current_alive == g.current_generation[y][x]
                        IN  CASE neighbors = 2 -> current_alive
                              [] neighbors = 3 -> TRUE
                              [] OTHER -> FALSE]]
    IN  [g EXCEPT !.current_generation = next,
                  !.next_generation = g.current_generation,
                  !.generation_count = g.generation_count + 1]

(***************************************************************************)
(* The three engines, one operation on one of them from the same pattern   *)
(***************************************************************************)
\* The width of the wider grid tried: its rows take two u64s.
WideWidth == 66

\* The values of thread::available_parallelism() tried for step_parallel.
BitsParallelism == (1..MaxParallelism) \cup {DEFAULT_PARALLELISM}

\* The coordinates set_cell and get_cell are tried with: around the ends of
\* both grids and of a u64.
BitsXSample == {0, 1, 2, 3, 63, 64, 65, 66, 67, 127, 128}
BitsYSample == 0..(Height + 1)

\* The patterns the engines start from: every pattern of the small grid, and
\* on the wide grid every pattern of the two columns where the first u64 of a
\* row ends and the second begins.
EnginePatterns(w) ==
    IF w < BIT_LENGTH THEN Grids(w, Height)
    ELSE {[y \in 1..Height |->
            [x \in 1..w |->
                IF x - 1 \in {BIT_LENGTH - 1, BIT_LENGTH}
                THEN m[y][x - (BIT_LENGTH - 1)] ELSE FALSE]] :
          m \in Grids(2, Height)}

\* No operation on GameOfLifeBits and GameOfLife.
EngineIdle ==
    /\ CallsIdle
    /\ bits = NewBits(Width, Height)
    /\ bitsBefore = NewBits(Width, Height)
    /\ life = NewGame(Width, Height)

\* new() of each engine, the random draws of initialize_random leaving the
\* same pattern in all three.
EngineInit ==
    \E w \in {Width, WideWidth} : \E c \in EnginePatterns(w) :
        /\ game = [NewGame(w, Height) EXCEPT !.current_generation = c]
        /\ before = game
        /\ life = [NewGame(w, Height) EXCEPT !.current_generation = c]
        /\ bits = GameOfLifeBits_initialize_random(NewBits(w, Height), c)
        /\ bitsBefore = bits
        /\ calls = [k \in Conns |-> NoCall]
        /\ gop = NoOp
        /\ lock = "ok"
        /\ reply = NoReply
        /\ served = 0

\* GameOfLifeBits::step on a machine with the given available parallelism.
BitsStep(parallelism) ==
    /\ gop.name = "new"
    /\ gop' = [name |-> "GameOfLifeBits::step", parallelism |-> parallelism]
    /\ before' = game
    /\ bitsBefore' = bits
    /\ bits' = GameOfLifeBits_step(bits, parallelism)
    /\ UNCHANGED <<game, lock, reply, served, life, calls, codecVars, hubVars>>

\* GameOfLifeBits::step_parallel
BitsStepParallel(parallelism) ==
    /\ gop.name = "new"
    /\ gop' = [name |-> "GameOfLifeBits::step_parallel", parallelism |-> parallelism]
    /\ before' = game
    /\ bitsBefore' = bits
    /\ bits' = step_parallel(bits, parallelism)
    /\ UNCHANGED <<game, lock, reply, served, life, calls, codecVars, hubVars>>

\* GameOfLifeBits::step_fallback
BitsStepFallback ==
    /\ gop.name = "new"
    /\ gop' = [name |-> "GameOfLifeBits::step_fallback", parallelism |-> 0]
    /\ before' = game
    /\ bitsBefore' = bits
    /\ bits' = GameOfLifeBits_step_fallback(bits)
    /\ UNCHANGED <<game, lock, reply, served, life, calls, codecVars, hubVars>>

\* GameOfLifeBits::set_cell(x, y, alive)
SetCell(x, y, alive) ==
    /\ gop.name = "new"
    /\ gop' = [name |-> "GameOfLifeBits::set_cell", parallelism |-> 0,
               x |-> x, y |-> y, alive |-> alive]
    /\ before' = game
    /\ bitsBefore' = bits
    /\ bits' = set_cell(bits, x, y, alive)
    /\ UNCHANGED <<game, lock, reply, served, life, calls, codecVars, hubVars>>

\* GameOfLife::step
ArchiveStep ==
    /\ gop.name = "new"
    /\ gop' = [name |-> "GameOfLife::step", parallelism |-> 0]
    /\ before' = game
    /\ life' = GameOfLife_step(life)
    /\ UNCHANGED <<game, lock, reply, served, bits, bitsBefore, calls, codecVars, hubVars>>

EngineNext ==
    \/ \E parallelism \in 1..MaxParallelism : Step(parallelism)
    \/ StepFallback
    \/ \E parallelism \in BitsParallelism : BitsStep(parallelism)
    \/ \E parallelism \in BitsParallelism : BitsStepParallel(parallelism)
    \/ BitsStepFallback
    \/ \E x \in BitsXSample : \E y \in BitsYSample : \E alive \in BOOLEAN :
            SetCell(x, y, alive)
    \/ ArchiveStep

(***************************************************************************)
(* The specifications: each runs one part of the program and leaves the    *)
(* others at rest.                                                         *)
(***************************************************************************)
CodecSpecInit == CodecInit /\ GolIdle /\ HubIdle /\ EngineIdle

PayloadSpec == CodecSpecInit /\ [][PayloadNext]_vars

CodecSpec == CodecSpecInit /\ [][CodecNext]_vars

GolSpecInit == CodecIdle /\ GolInit /\ HubIdle /\ EngineIdle

GolSpec == GolSpecInit /\ [][GolNext]_vars

GolFaultSpec == GolSpecInit /\ [][GolFaultNext]_vars

GolRunSpecInit == CodecIdle /\ GolRunInit /\ HubIdle /\ EngineIdle

GolRunSpec == GolRunSpecInit /\ [][GolRunNext]_vars

CommandSpec == GolRunSpecInit /\ [][CommandNext]_vars

HubSpecInit == CodecIdle /\ GolIdle /\ HubInit /\ EngineIdle

LagSpecInit == CodecIdle /\ GolIdle /\ LagInit /\ EngineIdle

LagSpec == LagSpecInit /\ [][LagNext]_vars

IdleSpecInit == CodecIdle /\ GolIdle /\ IdleInit /\ EngineIdle

\* The server's own tasks take the steps they can take; no client is bound to
\* send anything.
IdleFairness ==
    \A c \in Conns :
        /\ WF_vars(SocketHandlerSelect(c))
        /\ WF_vars(ChannelReceiverRun(c, FALSE))
        /\ WF_vars(SocketHandlerRun(c, FALSE))

TeardownSpec == IdleSpecInit /\ [][TeardownNext]_vars

FairIdleSpec == IdleSpecInit /\ [][IdleNext]_vars /\ IdleFairness

MainSpecInit == CodecIdle /\ GolIdle /\ MainInit /\ EngineIdle

MainSpec == MainSpecInit /\ [][MainNext]_vars

HubSpec == HubSpecInit /\ [][HubNext]_vars

OpsSpec == GolRunSpecInit /\ [][OpsNext]_vars

EngineSpecInit == CodecIdle /\ EngineInit /\ HubIdle

ConcSpecInit == CodecIdle /\ ConcInit /\ bits = NewBits(Width, Height)
                    /\ bitsBefore = NewBits(Width, Height)
                    /\ life = NewGame(Width, Height)

ConcSpec == ConcSpecInit /\ [][ConcNext]_vars

EngineSpec == EngineSpecInit /\ [][EngineNext]_vars

\* The runtime polls a task that can take a step: a handler whose select has
\* a finished task to see goes on, and so does an inbound task that holds a
\* message it has still to send.
HubFairness ==
    \A c \in Conns :
        /\ WF_vars(HandleSocketSelect(c))
        /\ WF_vars(SocketHandlerSelect(c))
        /\ WF_vars(HandleSendToChannelSend(c))

FairHubSpec == HubSpecInit /\ [][HubNext]_vars /\ HubFairness

(***************************************************************************)
(* Claims about the codec                                                  *)
(***************************************************************************)

C8_TooShort ==
    (op = "decode" /\ Len(data) < HEADER_LENGTH) => decoded.err = "Message too short"

C8_Witness ==
    /\ op = "decode"
    /\ Len(data) = HEADER_LENGTH - 1
    /\ data[1] # PROTOCOL_VERSION
    /\ decoded.err = "Message too short"

\* C9: every buffer of at least 7 bytes whose first byte is not 1 is rejected
\* with "Unsupported protocol version", whether or not its declared payload
\* length matches the bytes that follow.
C9_UnsupportedVersion ==
    (op = "decode" /\ Len(data) >= HEADER_LENGTH /\ data[1] # PROTOCOL_VERSION) =>
        decoded.err = "Unsupported protocol version"

C9_Witness ==
    /\ op = "decode"
    /\ Len(data) >= HEADER_LENGTH
    /\ data[1] = 255
    /\ SubSeq(data, 4, 7) # to_be_bytes(Len(data) - HEADER_LENGTH)
    /\ decoded.err = "Unsupported protocol version"

\* C10: every buffer of at least 7 bytes with first byte 1 whose big-endian
\* length field differs from the number of bytes after the header is rejected
\* with "Message length mismatch"; a payload is returned only when it is
\* exactly the bytes after the header.
C10_LengthMismatch ==
    (op = "decode" /\ Len(data) >= HEADER_LENGTH /\ data[1] = PROTOCOL_VERSION) =>
        /\ SubSeq(data, 4, 7) # to_be_bytes(Len(data) - HEADER_LENGTH)
              => decoded.err = "Message length mismatch"
        /\ decoded.err = "none"
              => decoded.msg.payload = SubSeq(data, HEADER_LENGTH + 1, Len(data))

\* A declared length smaller than the bytes that follow.
C10_Witness ==
    /\ op = "decode"
    /\ Len(data) > HEADER_LENGTH
    /\ data[1] = PROTOCOL_VERSION
    /\ SubSeq(data, 4, 6) = <<0, 0, 0>>
    /\ data[7] < Len(data) - HEADER_LENGTH
    /\ decoded.err = "Message length mismatch"

(***************************************************************************)
(* Claims about the engine                                                 *)
(***************************************************************************)

\* The cell at 0-based (x, y) of grid c, dead when (x, y) is outside the grid.
AliveAt(c, x, y) ==
    /\ x >= 0 /\ x < Width
    /\ y >= 0 /\ y < Height
    /\ c[y + 1][x + 1]

\* The live cells among the 8 neighbours of (x, y), without wraparound.
LiveNeighbours(c, x, y) ==
    Cardinality({d \in {-1, 0, 1} \X {-1, 0, 1} :
                    d # <<0, 0>> /\ AliveAt(c, x + d[1], y + d[2])})

\* The standard rule for the cell at (x, y) of the generation c.
StandardRule(c, x, y) ==
    LET n == LiveNeighbours(c, x, y)
    IN  IF AliveAt(c, x, y) THEN n \in {2, 3} ELSE n = 3

\* C2: after step, every cell of the current generation is what the standard
\* rule gives for the generation before the step: alive with 2 or 3 live
\* neighbours stays alive, dead with exactly 3 becomes alive, anything else is
\* dead, the neighbours outside the grid counting as dead.
C2_StepRule ==
    gop.name = "step" =>
        /\ Len(game.current_generation) = Height
        /\ \A y \in 0..(Height - 1) :
              /\ Len(game.current_generation[y + 1]) = Width
              /\ \A x \in 0..(Width - 1) :
                    game.current_generation[y + 1][x + 1]
                        = StandardRule(before.current_generation, x, y)

\* A step by several workers in which the corner cell is born, the centre
\* cell dies of its 4 or more live neighbours and some cell survives.
C2_Witness ==
    /\ gop.name = "step"
    /\ num_threads(gop.parallelism, game.height) > 1
    /\ ~before.current_generation[1][1] /\ game.current_generation[1][1]
    /\ before.current_generation[2][2] /\ ~game.current_generation[2][2]
    /\ LiveNeighbours(before.current_generation, 1, 1) >= 4
    /\ \E y \in 1..Height : \E x \in 1..Width :
          before.current_generation[y][x] /\ game.current_generation[y][x]

\* C3: for every starting grid and every worker count, the parallel step
\* leaves the same current generation, cell for cell, and the same
\* generation_count as step_fallback does from the same grid.
C3_StepEqualsFallback ==
    gop.name = "step" =>
        LET sequential == step_fallback(before)
        IN  /\ game.current_generation = sequential.current_generation
            /\ game.generation_count = sequential.generation_count

\* A step with as many workers as rows that changes the grid.
C3_Witness ==
    /\ gop.name = "step"
    /\ num_threads(gop.parallelism, game.height) = Height
    /\ game.current_generation # before.current_generation
    /\ game.current_generation = step_fallback(before).current_generation
    /\ \E y \in 1..Height : \E x \in 1..Width : game.current_generation[y][x]


(***************************************************************************)
(* The hub: what a connection is sent.                                     *)
(***************************************************************************)
\* The place of a message in the order of publication.
PublishIndex(id) == CHOOSE i \in 1..Len(chan) : chan[i].id = id

\* The ids of the messages the outbound task of c wrote, in the order written.
RECURSIVE LiveIds(_)
LiveIds(w) ==
    IF w = <<>> THEN <<>>
    ELSE IF w[Len(w)][2] = "live"
         THEN Append(LiveIds(SubSeq(w, 1, Len(w) - 1)), w[Len(w)][1])
         ELSE LiveIds(SubSeq(w, 1, Len(w) - 1))

Live(c) == LiveIds(wire[c])

Subscribed(c) == handler[c] \in {"select", "returned"}

\* The messages published after the replay buffer was read for c that c can
\* never be sent: they are not in what was read, and the Receiver of c was
\* created after them.
Missed(c) ==
    {i \in 1..Len(chan) :
        /\ i > mark[c].read
        /\ i <= mark[c].sub
        /\ \A j \in 1..Len(replay[c]) : replay[c][j].id # chan[i].id}

\* C4: a new connection misses no message: every message published after the
\* replay buffer was read for the connection is in reach of its outbound task.
C4_NoMissedMessage ==
    \A c \in Conns : Subscribed(c) => Missed(c) = {}

\* Each subscriber is sent messages in the order of publication, and any two
\* subscribers are sent the messages both are sent in the same relative order.
PublishOrder ==
    \A c \in Conns :
        LET l == Live(c) IN
        /\ \A j, k \in 1..Len(l) :
                j < k => PublishIndex(l[j]) < PublishIndex(l[k])
        /\ \A d \in Conns :
                LET m == Live(d) IN
                \A j, k \in 1..Len(l) : \A x, y \in 1..Len(m) :
                    (l[j] = m[x] /\ l[k] = m[y]) => ((j < k) <=> (x < y))

\* The outbound task of c runs and has written every message it can receive.
CaughtUp(c) ==
    /\ Subscribed(c)
    /\ outbound[c].st = "run"
    /\ outbound[c].next = Len(chan)

\* What c was sent of the messages published after the first k.
RECURSIVE After(_, _)
After(l, k) ==
    IF l = <<>> THEN <<>>
    ELSE IF PublishIndex(l[Len(l)]) > k
         THEN Append(After(SubSeq(l, 1, Len(l) - 1), k), l[Len(l)])
         ELSE After(SubSeq(l, 1, Len(l) - 1), k)

\* The sequences c and d were sent since both have been connected.
SameSequences(c, d) ==
    LET k == IF mark[c].sub > mark[d].sub THEN mark[c].sub ELSE mark[d].sub
    IN  After(Live(c), k) = After(Live(d), k)

OneFinished(c) ==
    /\ handler[c] = "select"
    /\ outbound[c].st = "done" \/ inbound[c].st = "done"

TornDown(c) ==
    /\ handler[c] = "returned"
    /\ outbound[c].st # "run"
    /\ inbound[c].st # "run"

\* C6: once either task of a connection has finished, the other task is
\* cancelled and the handler of the connection returns; and a handler that has
\* returned never leaves a task of its connection running for ever.
C6_JointCancellation ==
    \A c \in Conns :
        /\ OneFinished(c) ~> TornDown(c)
        /\ (handler[c] = "returned") ~> TornDown(c)

C6_Witness ==
    \E c \in Conns :
        /\ TornDown(c)
        /\ \/ outbound[c].st = "aborted" /\ inbound[c].st = "done"
           \/ outbound[c].st = "done" /\ inbound[c].st = "aborted"

\* C7: when a binary frame fails to decode, ChannelSender drops only that
\* frame: nothing is published for it and the inbound task keeps running.
C7_DecodeFailureDropsFrame ==
    [][\A c \in Conns :
        (/\ build = "message.rs"
         /\ frames' = frames + 1
         /\ lastFrame'.conn = c
         /\ lastFrame'.kind = "undecodable"
         /\ ~lastFrame'.late)
        => (chan' = chan /\ inbound'[c].st = "run")]_vars


(***************************************************************************)
(* The codec: the layout of an encoded frame.                              *)
(***************************************************************************)
\* C11: encode_ws_message gives, for every message, exactly 7 + len(payload)
\* bytes: version, msg_type, flags, the payload length as four bytes with the
\* most significant first, then the payload bytes unchanged.
C11_EncodedLayout ==
    op = "roundtrip" =>
        /\ Len(data) = 7 + Len(msg.payload)
        /\ data[1] = msg.version
        /\ data[2] = msg.msg_type
        /\ data[3] = msg.flags
        /\ data[4] = 0 /\ data[5] = 0
        /\ data[6] * 256 + data[7] = Len(msg.payload)
        /\ \A i \in 1..Len(msg.payload) : data[7 + i] = msg.payload[i]

C11_Witness ==
    /\ op = "roundtrip"
    /\ msg.version = 1 /\ msg.msg_type = 42 /\ msg.flags = 0
    /\ Len(msg.payload) = MaxPayload
    /\ data[7] = MaxPayload


(***************************************************************************)
(* The hub: frames that are not commands.                                  *)
(***************************************************************************)
\* The inbound task of c in a message.rs server reads a frame of this kind.
Reads(c, kind) ==
    /\ build = "message.rs"
    /\ frames' = frames + 1
    /\ lastFrame'.conn = c
    /\ lastFrame'.kind = kind

\* C12: when a client sends a text frame, ChannelSender publishes one notice
\* (none when the hub has no subscriber) and the inbound task of the connection
\* ends with that frame.
C12_TextEndsInbound ==
    [][\A c \in Conns :
        Reads(c, "text") =>
            /\ chan' = send(HubMessage(frames + 1, "text")).chan
            /\ inbound'[c].st = "done"]_vars


(***************************************************************************)
(* The engine: failed workers and the generation counter.                  *)
(***************************************************************************)
\* C19: a step in which a worker thread failed either leaves the grid and
\* generation_count as they were, or leaves the whole next generation, the
\* rows of the failed worker included.
C19_FailedWorkerNotIgnored ==
    gop.name = "step, worker failed" =>
        \/ /\ game.current_generation = before.current_generation
           /\ game.generation_count = before.generation_count
        \/ game.current_generation = step_fallback(before).current_generation

\* C20: each call of step or step_fallback leaves generation_count one higher
\* than it found it.
C20_CountsEachStep ==
    gop.name \in {"step", "step_fallback"} =>
        game.generation_count = before.generation_count + 1

C20_Witness ==
    /\ gop.name = "step"
    /\ before.generation_count = MaxGen - 1
    /\ game.generation_count = MaxGen
    /\ game.current_generation # before.current_generation


(***************************************************************************)
(* The hub: the replay buffer.                                             *)
(***************************************************************************)
\* C15: the replay buffer never holds more messages than the capacity it was
\* created with.
C15_ReplayBufferBounded ==
    Len(messages) <= MessagesCap

Published(id) == \E i \in 1..Len(chan) : chan[i].id = id

\* C16: the messages of the replay buffer that were published are in the
\* buffer in the order in which they were published.
C16_ReplayOrderIsPublishOrder ==
    \A i, j \in 1..Len(messages) :
        (i < j /\ Published(messages[i].id) /\ Published(messages[j].id))
            => PublishIndex(messages[i].id) < PublishIndex(messages[j].id)


(***************************************************************************)
(* main.rs: the driver thread and the replay after the subscription.       *)
(***************************************************************************)
\* C13: a publish to a hub without subscribers is no error to the publisher:
\* the driver thread is never stopped by one, whatever happens between its
\* test of receiver_count and its send.
C13_DriverNeverStops ==
    driver.pc # "stopped"

\* C17: a connection is never sent the same message twice, be it in the
\* replay, in the live stream, or once in each.
C17_NoMessageTwice ==
    \A c \in Conns : \A i, j \in 1..Len(wire[c]) :
        i < j => wire[c][i][1] # wire[c][j][1]


(***************************************************************************)
(* message.rs: a receiver that lags.                                       *)
(***************************************************************************)
\* The outbound task of c takes a turn of its loop.
ReceiverTurn(c) ==
    /\ build = "message.rs"
    /\ outbound[c].st = "run"
    /\ outbound'[c] # outbound[c]
    /\ handler'[c] = handler[c]

\* The message at the cursor of c has been overwritten: recv() gives Lagged.
LagEvent(c) == outbound[c].next < oldest

\* C14: ChannelReceiver ends exactly at the 5th lag event in a row: a lag
\* event after fewer than 4 others in a row leaves the task running and counts
\* one more, a received message sets the count back to 0, and but for a failed
\* write nothing else ends the task.
C14_FiveLagsInARow ==
    [][\A c \in Conns :
        ReceiverTurn(c) =>
            /\ (LagEvent(c) /\ outbound[c].errors < 4) =>
                    /\ outbound'[c].st = "run"
                    /\ outbound'[c].errors = outbound[c].errors + 1
            /\ (LagEvent(c) /\ outbound[c].errors = 4) => outbound'[c].st = "done"
            /\ (~LagEvent(c) /\ sink'[c]) =>
                    /\ outbound'[c].st = "run"
                    /\ outbound'[c].errors = 0
            /\ outbound[c].errors <= 4]_vars

\* A receiver that was ended by its 5th lag event in a row, not by a write.
C14_Witness ==
    \E c \in Conns :
        /\ build = "message.rs"
        /\ handler[c] = "select"
        /\ outbound[c].st = "done"
        /\ sink[c]
        /\ Len(chan) >= 5 + ChannelCap


(***************************************************************************)
(* message.rs: a client that falls silent.                                 *)
(***************************************************************************)
\* C18: an inbound task whose client has sent no frame for longer than
\* ACTIVITY_TIMEOUT ends, also when the client never sends a frame again: the
\* task does not stay running with its client silent past the timeout.
C18_IdleInboundEnds ==
    \A c \in Conns :
        (inbound[c].st = "run" /\ inbound[c].idle)
            ~> (inbound[c].st # "run" \/ ~inbound[c].idle)


(***************************************************************************)
(* payload.rs: the reply to a command.                                     *)
(***************************************************************************)
\* C24: handle_payload returns one message for every decoded command, and
\* for a msg_type it does not recognise that message is the command itself:
\* same version, msg_type, flags and payload.
C24_EchoUnchanged ==
    (op = "handle_payload" /\ decoded.err = "none") =>
        /\ decode_ws_message(response).err = "none"
        /\ decoded.msg.msg_type # SEND_PIXEL => decode_ws_message(response).msg = decoded.msg


(***************************************************************************)
(* patterns/gol.rs: the commands on the shared grid.                       *)
(***************************************************************************)
\* C21: generation_count never decreases, whatever the engine operation
\* (step, awaken or kill a random cell, awaken a given cell, kill_all_cells,
\* initialize_random).
C21_NeverDecreases ==
    game.generation_count >= before.generation_count

\* The operations that start the count anew.
Resets == {"kill_all_cells", "create_new_generation"}

\* C21, amended: generation_count never decreases over step and the awaken and
\* kill of one cell; kill_all_cells and initialize_random set it to 0.
C21_DecreasesOnlyByReset ==
    /\ gop.name \notin Resets => game.generation_count >= before.generation_count
    /\ (gop.name \in Resets /\ reply # Panic) => game.generation_count = 0

C21_Witness ==
    /\ gop.name = "create_new_generation"
    /\ before.generation_count > 0
    /\ game.generation_count = 0

\* A command that names a cell off the canvas.
OutOfRange ==
    /\ gop.name = "awaken_cell"
    /\ (gop.x >= CANVAS_WIDTH \/ gop.y >= CANVAS_HEIGHT)

\* C22: awaken_cell with x >= CANVAS_WIDTH or y >= CANVAS_HEIGHT fails
\* without a panic and leaves the grid as it was.
C22_OutOfRangeFailsQuietly ==
    OutOfRange =>
        /\ reply # Panic
        /\ game = before

\* C23: whatever went wrong before, a command that is itself in order (an
\* awaken, a kill, an advance, a kill all, a current frame) completes: the
\* lock around the shared grid stays usable.
C23_LaterCommandsComplete ==
    (gop.name # "new" /\ ~OutOfRange) => reply # Panic

(***************************************************************************)
(* patterns/gol_threads.rs: the blinker.                                   *)
(***************************************************************************)
\* The horizontal blinker initialize_blinker leaves, and the vertical one
\* through the same centre.
HorizontalBlinker == initialize_blinker(NewGame(Width, Height)).current_generation

VerticalBlinker ==
    [y \in 1..Height |->
        [x \in 1..Width |->
            /\ x - 1 = Width \div 2
            /\ (y - 1) \in {(Height \div 2) - 1, Height \div 2, (Height \div 2) + 1}]]

\* C25: one step, parallel or step_fallback, takes the horizontal blinker on
\* an otherwise empty grid to the vertical blinker through the same centre,
\* and one more step takes that back to the horizontal blinker.
C25_BlinkerPeriodTwo ==
    gop.name \in {"step", "step_fallback"} =>
        /\ before.current_generation = HorizontalBlinker =>
                game.current_generation = VerticalBlinker
        /\ before.current_generation = VerticalBlinker =>
                game.current_generation = HorizontalBlinker

C25_Witness ==
    /\ gop.name = "step"
    /\ game.generation_count = 2
    /\ LiveCells(HorizontalBlinker) = 3
    /\ game.next_generation = VerticalBlinker
    /\ before.next_generation = HorizontalBlinker
    /\ game.current_generation = HorizontalBlinker

(***************************************************************************)
(* patterns/gol_threads.rs: single cells, kill_all_cells, to_rgb_data.     *)
(***************************************************************************)
\* Every cell but <<x, y>> (0-based) is as it was before the operation.
OthersUnchanged(x, y) ==
    \A j \in 1..Height : \A i \in 1..Width :
        (i # x + 1 \/ j # y + 1) =>
            game.current_generation[j][i] = before.current_generation[j][i]

FrameData == SubSeq(reply.bytes, HEADER_LENGTH + 5, Len(reply.bytes))

\* The three bytes of cell <<x, y>> (0-based) in row-major order.
CellBytes(x, y) == SubSeq(FrameData, 3 * (y * Width + x) + 1, 3 * (y * Width + x) + 3)

\* C28: to_rgb_data returns width*height*3 bytes in row-major order, the cell
\* (x,y) at offset 3*(y*width+x); the bytes of a dead cell are 255,255,255 (and
\* those of a live cell a colour create_random_rgb can draw).
C28_RgbDataLayout ==
    reply.kind = "frame" =>
        /\ Len(FrameData) = game.width * game.height * 3
        /\ \A y \in 0..(Height - 1) : \A x \in 0..(Width - 1) :
                IF game.current_generation[y + 1][x + 1]
                THEN CellBytes(x, y) \in RgbSample
                ELSE CellBytes(x, y) = <<255, 255, 255>>

C28_Witness ==
    /\ reply.kind = "frame"
    /\ gop.name = "current_generation"
    /\ game.current_generation[1][1]
    /\ ~game.current_generation[Height][1]
    /\ CellBytes(0, 0) \in RgbSample
    /\ CellBytes(0, Height - 1) = <<255, 255, 255>>

(***************************************************************************)
(* message.rs: the end of a connection.                                    *)
(***************************************************************************)
\* The step in which the handler of c returns: one task has ended, the other
\* is aborted.
Terminates(c) == handler[c] = "select" /\ handler'[c] = "returned"

\* C29: the termination of one connection leaves the shared grid as it is and
\* neither stops nor cancels the inbound or outbound task of another connection.
C29_TerminationIsLocal ==
    [][\A c \in Conns :
        Terminates(c) =>
            /\ game' = game
            /\ \A d \in Conns \ {c} :
                /\ outbound'[d] = outbound[d]
                /\ inbound'[d] = inbound[d]
                /\ handler'[d] = handler[d]]_vars

C29_Witness ==
    \E c \in Conns : \E d \in Conns \ {c} :
        /\ build = "message.rs"
        /\ handler[c] = "returned"
        /\ outbound[c].st = "aborted" \/ inbound[c].st = "aborted"
        /\ handler[d] = "select"
        /\ outbound[d].st = "run"
        /\ inbound[d].st = "run"

\* C30: the handler of a connection returns only after both its tasks have
\* stopped running: no task of a connection whose handler has returned is
\* still running.
C30_ReturnsAfterBothStopped ==
    \A c \in Conns :
        (build = "message.rs" /\ handler[c] = "returned") =>
            /\ outbound[c].st # "run"
            /\ inbound[c].st # "run"

(***************************************************************************)
(* utils.rs: the messages the commands return.                             *)
(***************************************************************************)
\* The message a command returned, decoded.
Returned == decode_ws_message(reply.bytes)

\* C31: create_pixel_message yields a DRAW_PIXEL (100) message whose payload
\* is exactly 7 bytes, x and y as 2-byte big-endian integers and then r, g, b;
\* create_frame_message yields a DRAW_FRAME (101) message whose payload is the
\* big-endian canvas width, the big-endian canvas height and then exactly
\* width*height*3 bytes.
C31_MessageLayout ==
    /\ reply.kind = "pixel" =>
            /\ Returned.err = "none"
            /\ Returned.msg.msg_type = 100
            /\ Len(Returned.msg.payload) = 7
            /\ SubSeq(Returned.msg.payload, 1, 4)
                    = << gop.x \div 256, gop.x % 256, gop.y \div 256, gop.y % 256 >>
            /\ SubSeq(Returned.msg.payload, 5, 7)
                    \in (IF gop.name = "kill_random_cell"
                         THEN {DEAD_CELL_R_G_B} ELSE RgbSample)
    /\ reply.kind = "frame" =>
            /\ Returned.err = "none"
            /\ Returned.msg.msg_type = 101
            /\ SubSeq(Returned.msg.payload, 1, 4)
                    = << CANVAS_WIDTH \div 256, CANVAS_WIDTH % 256,
                         CANVAS_HEIGHT \div 256, CANVAS_HEIGHT % 256 >>
            /\ Len(Returned.msg.payload) = 4 + CANVAS_WIDTH * CANVAS_HEIGHT * 3

C31_Witness ==
    /\ reply.kind = "pixel"
    /\ gop.name = "awaken_cell"
    /\ gop.x = 1
    /\ gop.y = 2
    /\ Returned.msg.msg_type = DRAW_PIXEL
    /\ Returned.msg.payload = <<0, 1, 0, 2, 254, 254, 254>>

\* C39: in every frame to_rgb_data produces, the three bytes of a cell are
\* 255,255,255 if and only if the cell is dead: a live cell's random colour is
\* never the dead colour.
C39_DeadColourIffDead ==
    reply.kind = "frame" =>
        \A y \in 0..(Height - 1) : \A x \in 0..(Width - 1) :
            (CellBytes(x, y) = <<255, 255, 255>>)
                <=> ~game.current_generation[y + 1][x + 1]

C39_Witness ==
    /\ reply.kind = "frame"
    /\ gop.name = "step"
    /\ LiveCells(game.current_generation) = 2
    /\ \E y \in 0..(Height - 1) : \E x \in 0..(Width - 1) :
            /\ game.current_generation[y + 1][x + 1]
            /\ CellBytes(x, y) = <<254, 254, 254>>

(***************************************************************************)
(* The engines: gol_threads.rs, gol_simd.rs, gol_archive.rs.               *)
(***************************************************************************)
\* The result of each worker thread of the GameOfLifeVecs::step just taken,
\* by thread id, and the rows it was given.
VecsWorker(t) ==
    worker(before.current_generation, t,
           chunk_size(before.height, num_threads(gop.parallelism, before.height)),
           before.width, before.height)

VecsRange(t) == VecsWorker(t).start_row .. (VecsWorker(t).start_row + Len(VecsWorker(t).rows) - 1)

\* The same for the threads of the GameOfLifeBits::step_parallel just taken
\* (numbered from 1).
BitsWorkers == step_parallel_results(bitsBefore, gop.parallelism)

BitsRange(t) == BitsWorkers[t].start_y .. (BitsWorkers[t].end_y - 1)

\* C35: in a parallel step, for every worker count, the row ranges of the
\* workers are pairwise disjoint and together cover rows 0..height-1 exactly
\* once, and the rows each worker computed are in the next buffer at their own
\* row indices.
C35_RowRangesPartition ==
    /\ gop.name = "step" =>
        LET ids == ThreadIds(gop.parallelism, before.height) IN
        /\ \A t \in ids : \A u \in ids : t # u => VecsRange(t) \cap VecsRange(u) = {}
        /\ UNION {VecsRange(t) : t \in ids} = 0..(before.height - 1)
        /\ Len(game.current_generation) = before.height
        /\ \A t \in ids : \A y \in VecsRange(t) :
                game.current_generation[y + 1]
                    = VecsWorker(t).rows[y - VecsWorker(t).start_row + 1]
    /\ gop.name = "GameOfLifeBits::step_parallel" =>
        LET ids == 1..gop.parallelism
            wc == bitsBefore.width_chunks
        IN
        /\ \A t \in ids : \A u \in ids : t # u => BitsRange(t) \cap BitsRange(u) = {}
        /\ UNION {BitsRange(t) : t \in ids} = 0..(bitsBefore.height - 1)
        /\ Len(bits.current_generation) = wc * bitsBefore.height
        /\ \A t \in ids : \A y \in BitsRange(t) : \A c \in 0..(wc - 1) :
                /\ BitsWorkers[t].ok
                /\ bits.current_generation[y * wc + c + 1]
                    = BitsWorkers[t].local_next[(y - BitsWorkers[t].start_y) * wc + c + 1]

C35_Witness ==
    /\ gop.name = "step"
    /\ gop.parallelism = 2
    /\ VecsRange(0) = {0, 1}
    /\ VecsRange(1) = {2}
    /\ game.current_generation[1] # game.current_generation[2]
    /\ game.current_generation[2] # game.current_generation[3]
    /\ game.current_generation[1] # game.current_generation[3]

\* C36: each call of GameOfLifeBits::step increases generation_count by
\* exactly 1.
C36_BitsStepCountsOne ==
    gop.name = "GameOfLifeBits::step" =>
        bits.generation_count = bitsBefore.generation_count + 1

\* The cells of a GameOfLifeBits object as rows of booleans, read with
\* get_cell.
CellsOfBits(b) ==
    [y \in 1..b.height |-> [x \in 1..b.width |-> get_cell(b, x - 1, y - 1)]]

\* C37: from the same starting grid GameOfLifeBits::step_parallel and
\* step_fallback, GameOfLife::step and GameOfLifeVecs::step produce the same
\* next generation, cell for cell (each is compared with GameOfLife::step).
C37_EnginesAgree ==
    LET expected == GameOfLife_step(before).current_generation IN
    /\ CellsOfBits(bitsBefore) = before.current_generation
    /\ gop.name = "step" => game.current_generation = expected
    /\ gop.name = "GameOfLife::step" => life.current_generation = expected
    /\ gop.name \in {"GameOfLifeBits::step_parallel", "GameOfLifeBits::step",
                     "GameOfLifeBits::step_fallback"} =>
            CellsOfBits(bits) = expected

C37_Witness ==
    /\ gop.name = "GameOfLifeBits::step_parallel"
    /\ gop.parallelism = DEFAULT_PARALLELISM
    /\ bits.width > BIT_LENGTH
    /\ get_cell(bits, BIT_LENGTH - 2, 1)
    /\ get_cell(bits, BIT_LENGTH + 1, 1)
    /\ ~get_cell(bitsBefore, BIT_LENGTH - 2, 1)
    /\ CellsOfBits(bits) = GameOfLife_step(before).current_generation

\* Whether the coordinates are on the grid.
OnGrid(b, x, y) == x < b.width /\ y < b.height

\* C38: cell (x,y) of the bit-packed grid is bit x mod 64 of word
\* y*width_chunks + x div 64: for (x,y) on the grid, get_cell(x,y) after
\* set_cell(x,y,v) returns v and every other cell, and every other bit, is as
\* it was; get_cell of coordinates off the grid returns dead and set_cell of
\* them changes nothing.
C38_BitAddressing ==
    /\ \A x \in BitsXSample : \A y \in BitsYSample :
            IF OnGrid(bits, x, y)
            THEN get_cell(bits, x, y)
                    = ((x % 64) \in bits.current_generation[y * bits.width_chunks
                                                            + (x \div 64) + 1])
            ELSE ~get_cell(bits, x, y)
    /\ gop.name = "GameOfLifeBits::set_cell" =>
            IF OnGrid(bitsBefore, gop.x, gop.y)
            THEN /\ get_cell(bits, gop.x, gop.y) = gop.alive
                 /\ \A c \in BitsCellsOf(bits) :
                        c # <<gop.x, gop.y>> =>
                            get_cell(bits, c[1], c[2]) = get_cell(bitsBefore, c[1], c[2])
                 /\ \A i \in 1..Len(bits.current_generation) :
                        bits.current_generation[i] \ {gop.x % 64}
                            = bitsBefore.current_generation[i] \ {gop.x % 64}
                 /\ bits.next_generation = bitsBefore.next_generation
            ELSE bits = bitsBefore

C38_Witness ==
    /\ gop.name = "GameOfLifeBits::set_cell"
    /\ gop.x = BIT_LENGTH
    /\ gop.y = 1
    /\ gop.alive
    /\ ~get_cell(bitsBefore, BIT_LENGTH, 1)
    /\ get_cell(bitsBefore, 0, 1) = FALSE
    /\ get_cell(bitsBefore, BIT_LENGTH - 1, 1)
    /\ bits.current_generation[2 * bits.width_chunks] = {0}
    /\ bits.current_generation[2 * bits.width_chunks - 1] = {BIT_LENGTH - 1}

\* The rows of a generation are height rows of width cells.
WellShaped(generation) ==
    /\ Len(generation) = Height
    /\ \A y \in 1..Len(generation) : Len(generation[y]) = Width

\* C34: after any sequence of operations of GameOfLifeVecs (step,
\* step_fallback, awaken or kill a cell, kill_all_cells, initialize_random,
\* initialize_glider, initialize_blinker) width and height are what they were
\* at construction and current_generation and next_generation each have
\* exactly height rows of exactly width cells.
C34_ShapeFixed ==
    /\ game.width = Width
    /\ game.height = Height
    /\ WellShaped(game.current_generation)
    /\ WellShaped(game.next_generation)

C34_Witness ==
    /\ served = MaxCommands
    /\ gop.name = "kill_all_cells"
    /\ before.generation_count = 1
    /\ LiveCells(before.current_generation) > 0
    /\ game.next_generation = before.current_generation
    /\ WellShaped(game.current_generation)
    /\ WellShaped(game.next_generation)

(***************************************************************************)
(* main.rs, socket.rs: the replay buffer and the pixels broadcast.         *)
(***************************************************************************)
\* C40: every DRAW_PIXEL message that the channel accepted for the live
\* subscribers is also in the replay buffer, whether it came from a client
\* command or from the periodic driver, so that a later client is sent it in
\* its replay.
C40_BroadcastPixelsRetained ==
    \A i \in 1..Len(chan) :
        chan[i].kind = "pixel" => \E j \in 1..Len(messages) : messages[j] = chan[i]

(***************************************************************************)
(* patterns/gol.rs: commands of several connections at the same time.      *)
(***************************************************************************)
\* The cells a DRAW_FRAME message shows alive: those whose three bytes are
\* not the dead colour.
CellsOfFrame(bytes) ==
    LET frame_data == SubSeq(bytes, HEADER_LENGTH + 5, Len(bytes)) IN
    [y \in 1..Height |->
        [x \in 1..Width |->
            SubSeq(frame_data, 3 * ((y - 1) * Width + (x - 1)) + 1,
                               3 * ((y - 1) * Width + (x - 1)) + 3) # DEAD_CELL_R_G_B]]

\* C32: the frame advance_generation returns is the grid exactly as that
\* call's own step produced it: no mutation or step of another connection is
\* visible in it, even when commands run at the same time.
C32_FrameIsOwnStep ==
    \A c \in Conns :
        (calls[c].pc = "send" /\ calls[c].name = "advance_generation") =>
            CellsOfFrame(calls[c].msg.bytes) = calls[c].own

\* The DRAW_PIXEL messages published so far, in publish order.
PublishedPixels == SelectSeq(chan, LAMBDA m : m.kind = "pixel")

\* The cell a DRAW_PIXEL message names, and whether it draws it alive.
PixelCell(m) ==
    LET payload == decode_ws_message(m.bytes).msg.payload
    IN  <<payload[1] * 256 + payload[2], payload[3] * 256 + payload[4]>>

PixelAlive(m) ==
    SubSeq(decode_ws_message(m.bytes).msg.payload, 5, 7) # DEAD_CELL_R_G_B

\* What a client that applied the published pixel messages in order shows for
\* a cell that one of them names: what the last of them drew.
ClientShows(cell) ==
    LET last == CHOOSE i \in 1..Len(PublishedPixels) :
                    /\ PixelCell(PublishedPixels[i]) = cell
                    /\ \A j \in (i + 1)..Len(PublishedPixels) :
                            PixelCell(PublishedPixels[j]) # cell
    IN  PixelAlive(PublishedPixels[last])

\* Every command of the run was a single-cell command and has been published.
OnlyPixelsAllProcessed ==
    /\ \A c \in Conns : calls[c].pc = "idle"
    /\ Len(chan) = served
    /\ Len(PublishedPixels) = Len(chan)

\* C33: the DRAW_PIXEL messages of concurrent commands are published in the
\* order in which the commands mutated the grid; hence, once all commands are
\* processed, a client that applied every published pixel message in order
\* shows each touched cell alive or dead exactly as it is in the server grid.
C33_PublishOrderIsMutationOrder ==
    /\ \A i \in 1..Len(PublishedPixels) : \A j \in 1..Len(PublishedPixels) :
            i < j => PublishedPixels[i].id < PublishedPixels[j].id
    /\ OnlyPixelsAllProcessed =>
            \A i \in 1..Len(PublishedPixels) :
                LET cell == PixelCell(PublishedPixels[i]) IN
                ClientShows(cell) = game.current_generation[cell[2] + 1][cell[1] + 1]

\* The consequence alone: the client's cells against the server grid.
ClientMatchesGrid ==
    OnlyPixelsAllProcessed =>
        \A i \in 1..Len(PublishedPixels) :
            LET cell == PixelCell(PublishedPixels[i]) IN
            ClientShows(cell) = game.current_generation[cell[2] + 1][cell[1] + 1]

====
